---- MODULE Spec2Model ----
(***************************************************************************)
(* A state-machine model of the render / annotation / persistence engine   *)
(* of src/pdfReader.py (class PDFReaderApp).                                *)
(*                                                                          *)
(* The fields of the application object are the variables.  Every handler   *)
(* is a function from the record of all fields (Self) to the record after   *)
(* the handler has returned; an action applies one handler (Commit).        *)
(* Zoom factors are integers in thousandths (1000 = 1.0).                   *)
(* The document library (fitz), the file system and Tk are the environment: *)
(* a file is a record of what the library would report for it.              *)
(***************************************************************************)
EXTENDS Integers, Sequences, FiniteSets, TLC

VARIABLES
    pdf_doc,                 \* self.pdf_doc: the open document handle, or NoDoc
    current_pdf_path,        \* self._current_pdf_path
    current_page,            \* self.current_page
    zoom,                    \* self.zoom (thousandths)
    rotation,                \* self.rotation
    fit_mode,                \* self.fit_mode
    view_mode,               \* self.view_mode
    canvas_size,             \* <<winfo_width, winfo_height>> of self.canvas
    thumbnails,              \* self.thumbnails: the installed thumbnail images
    images,                  \* self.images: the installed page images
    page_heights,            \* self._page_heights
    continuous_zoom,         \* self._continuous_zoom
    thumb_render_id,         \* self._thumb_render_id
    continuous_render_id,    \* self._continuous_render_id
    continuous_render_state, \* self._continuous_render_state (<<>> is None)
    is_rendering,            \* self._is_rendering
    pdf_scale,               \* self._pdf_scale (0: attribute not set yet)
    canvas_pdf,              \* canvas items tagged 'pdf_image'
    scrollregion,            \* <<width, height>> of the canvas scrollregion
    scroll_y,                \* canvas.canvasy(0)
    jobs,                    \* worker threads and their posted callbacks
    timers,                  \* pending self.after(...) callbacks
    search_text,             \* self._find_entry_var
    search_results,          \* self._search_results
    current_search_index,    \* self._current_search_index
    draw_points,             \* self._draw_points (<<>> with draw_line FALSE: no gesture)
    draw_line,               \* hasattr(self, '_draw_line')
    canvas_hl,               \* canvas items tagged 'search_highlight'
    disk,                    \* the file system: file name -> file content
    session,                 \* the content of SESSION_FILE
    sidebar_visible,         \* self.sidebar_visible
    restore_page,            \* page_num of the pending after(500, go_to_page) (-1: none)
    ui_at,                   \* the handler the interactive thread is inside ("idle": none)
    resize_after_id,         \* self._resize_after_id (0 is None)
    resize_timers,           \* ids of the pending after(..., self._debounced_resize)
    canvas_lines,            \* canvas lines left by finished draw gestures (their points)
    instance_socket,         \* _instance_socket of this process: "listening" or "closed"
    listener,                \* the single-instance listener thread: "running" or "ended"
    backlog,                 \* connections made to the fixed port, not yet accepted
    posted,                  \* callbacks the listener has posted with self.after(0, ...)
    second,                  \* a second process started while this one runs
    issued,                  \* history: the continuous job dispatched last, as far as it got
    last,                    \* what the handler that ran last did (observation)
    nOps,                    \* number of user gestures so far
    budget                   \* number of user gestures a behaviour may hold

vars == <<pdf_doc, current_pdf_path, current_page, zoom, rotation, fit_mode,
          view_mode, canvas_size, thumbnails, images, page_heights,
          continuous_zoom, thumb_render_id, continuous_render_id,
          continuous_render_state, is_rendering, pdf_scale, canvas_pdf,
          scrollregion, scroll_y, jobs, timers, search_text, search_results,
          current_search_index, draw_points, draw_line, canvas_hl, disk,
          session, sidebar_visible, restore_page, ui_at,
          resize_after_id, resize_timers, canvas_lines,
          instance_socket, listener, backlog, posted, second,
          issued, last, nOps, budget>>

(***************************************************************************)
(* Bounds of the model.                                                     *)
(***************************************************************************)
MaxOps == 3
MaxNavOps == 5
MaxAnnotOps == 3
MaxSearchOps == 6
MaxGen == 3
MaxPoints == 4
MaxInstanceOps == 3
MaxMapperOps == 3
MaxCacheOps == 4
MaxSessionOps == 12
MaxOpenOps == 4
MaxDiagOps == 3
MaxRaceOps == 3
MaxResizeOps == 4
MaxNoDocOps == 3
SegmentSamples == 8

(***************************************************************************)
(* Program constants.                                                       *)
(***************************************************************************)
PageGap == 10
MinCanvas == 10
ZoomMin == 100
ZoomMax == 10000
MinInkPoints == 3
EraseTolerance == 14

FitModes == {"fit_page", "fit_width", "fit_height", "actual_size"}
ZoomFactors == {1250, 800}

(***************************************************************************)
(* The environment: files and what the document library reports for them.  *)
(***************************************************************************)
NoDoc == [file |-> "none"]

Min(a, b) == IF a <= b THEN a ELSE b
Max(a, b) == IF a >= b THEN a ELSE b

Page(ok, hits, annots) == [ok |-> ok, hits |-> hits, annots |-> annots]

\* A file that opens: its page size and its pages.
PdfFile(w, h, pages) ==
    [kind |-> "pdf", w |-> w, h |-> h, pages |-> pages, toc |-> <<>>]
\* A file on which fitz.open raises (kind names the exception).
BrokenFile(kind) ==
    [kind |-> kind, w |-> 0, h |-> 0, pages |-> <<>>, toc |-> <<>>]

\* Annotations as the library reports them: type, bounding rectangle and,
\* for ink, the points of the stroke (document units).
Rect(x0, y0, x1, y1) == [x0 |-> x0, y0 |-> y0, x1 |-> x1, y1 |-> y1]
Annot(type, rect, points) == [type |-> type, rect |-> rect, points |-> points]

(***************************************************************************)
(* The application object as one record, and its write-back.                *)
(***************************************************************************)
Self ==
    [pdf_doc |-> pdf_doc, current_pdf_path |-> current_pdf_path,
     current_page |-> current_page, zoom |-> zoom, rotation |-> rotation,
     fit_mode |-> fit_mode, view_mode |-> view_mode,
     canvas_size |-> canvas_size, thumbnails |-> thumbnails,
     images |-> images, page_heights |-> page_heights,
     continuous_zoom |-> continuous_zoom,
     thumb_render_id |-> thumb_render_id,
     continuous_render_id |-> continuous_render_id,
     continuous_render_state |-> continuous_render_state,
     is_rendering |-> is_rendering, pdf_scale |-> pdf_scale,
     canvas_pdf |-> canvas_pdf, scrollregion |-> scrollregion,
     scroll_y |-> scroll_y, jobs |-> jobs, timers |-> timers,
     search_text |-> search_text, search_results |-> search_results,
     current_search_index |-> current_search_index,
     draw_points |-> draw_points, draw_line |-> draw_line,
     canvas_hl |-> canvas_hl, disk |-> disk, session |-> session,
     sidebar_visible |-> sidebar_visible, restore_page |-> restore_page,
     ui_at |-> ui_at, resize_after_id |-> resize_after_id,
     resize_timers |-> resize_timers, canvas_lines |-> canvas_lines,
     instance_socket |-> instance_socket, issued |-> issued,
     last |-> last]

Commit(s) ==
    /\ pdf_doc' = s.pdf_doc
    /\ current_pdf_path' = s.current_pdf_path
    /\ current_page' = s.current_page
    /\ zoom' = s.zoom
    /\ rotation' = s.rotation
    /\ fit_mode' = s.fit_mode
    /\ view_mode' = s.view_mode
    /\ canvas_size' = s.canvas_size
    /\ thumbnails' = s.thumbnails
    /\ images' = s.images
    /\ page_heights' = s.page_heights
    /\ continuous_zoom' = s.continuous_zoom
    /\ thumb_render_id' = s.thumb_render_id
    /\ continuous_render_id' = s.continuous_render_id
    /\ continuous_render_state' = s.continuous_render_state
    /\ is_rendering' = s.is_rendering
    /\ pdf_scale' = s.pdf_scale
    /\ canvas_pdf' = s.canvas_pdf
    /\ scrollregion' = s.scrollregion
    /\ scroll_y' = s.scroll_y
    /\ jobs' = s.jobs
    /\ timers' = s.timers
    /\ search_text' = s.search_text
    /\ search_results' = s.search_results
    /\ current_search_index' = s.current_search_index
    /\ draw_points' = s.draw_points
    /\ draw_line' = s.draw_line
    /\ canvas_hl' = s.canvas_hl
    /\ disk' = s.disk
    /\ session' = s.session
    /\ sidebar_visible' = s.sidebar_visible
    /\ restore_page' = s.restore_page
    /\ ui_at' = s.ui_at
    /\ resize_after_id' = s.resize_after_id
    /\ resize_timers' = s.resize_timers
    /\ canvas_lines' = s.canvas_lines
    /\ instance_socket' = s.instance_socket
    /\ issued' = s.issued
    /\ last' = s.last

\* The observation record of a handler that has just started.
Quiet(op) ==
    [op |-> op, at |-> <<>>, raster |-> FALSE, overlay |-> FALSE,
     dropped |-> FALSE, edit |-> "none", commits |-> 0,
     incr |-> "no", full |-> "no", saved |-> "none", alerts |-> <<>>,
     raised |-> FALSE, value |-> <<>>, shows |-> 0]

Begin(s, op) == [s EXCEPT !.last = Quiet(op)]

Alert(s, kind, title) ==
    [s EXCEPT !.last.alerts = Append(@, [kind |-> kind, title |-> title])]

HasDoc(s) == s.pdf_doc.file # "none"
NumPages(s) == Len(s.pdf_doc.pages)
CanvasReady(s) == s.canvas_size[1] >= MinCanvas /\ s.canvas_size[2] >= MinCanvas

\* doc.load_page(p) succeeds (p is 0-based); on None it raises.
Loadable(doc, p) ==
    doc.file # "none" /\ p >= 0 /\ p < Len(doc.pages) /\ doc.pages[p + 1].ok

\* Size of the pixmap of a page rendered with Matrix(z, z).prerotate(rot).
PixW(doc, z, rot) ==
    IF rot \in {90, 270} THEN (doc.h * z) \div 1000 ELSE (doc.w * z) \div 1000
PixH(doc, z, rot) ==
    IF rot \in {90, 270} THEN (doc.w * z) \div 1000 ELSE (doc.h * z) \div 1000

\* Tk keeps the view inside the scrollregion.
MaxScroll(region, size) == Max(0, region[2] - size[2])
SetScrollRegion(s, region) ==
    [s EXCEPT !.scrollregion = region,
              !.scroll_y = Min(@, MaxScroll(region, s.canvas_size))]

(***************************************************************************)
(* Overlays.                                                                *)
(***************************************************************************)
\* Whether _render_search_highlights draws result i.
HighlightDrawn(s, i) ==
    LET r == s.search_results[i] IN
    IF s.view_mode = "continuous_scroll"
    THEN /\ r.page < Len(s.page_heights)
         /\ HasDoc(s)
         /\ Loadable(s.pdf_doc, r.page)
    ELSE r.page = s.current_page

RECURSIVE HighlightItems(_, _)
HighlightItems(s, i) ==
    IF i > Len(s.search_results) THEN <<>>
    ELSE (IF HighlightDrawn(s, i)
          THEN <<[idx |-> i - 1, page |-> s.search_results[i].page,
                  rect |-> s.search_results[i].rect,
                  current |-> (i - 1 = s.current_search_index)]>>
          ELSE <<>>) \o HighlightItems(s, i + 1)

\* _render_search_highlights.  In single-page mode every drawn rectangle goes
\* through pdf_to_canvas, which reads self._pdf_scale.
RenderSearchHighlights(s) ==
    LET items == HighlightItems(s, 1) IN
    IF s.view_mode # "continuous_scroll" /\ items # <<>> /\ s.pdf_scale = 0
    THEN [s EXCEPT !.canvas_hl = <<>>, !.last.raised = TRUE]
    ELSE [s EXCEPT !.canvas_hl = items]

\* _render_annotations: deletes the 'annotation' items and, when the page
\* loads, redraws the search highlights.  The drawing loop of the source
\* sits after the return of the except branch and never runs.
RenderAnnotations(s) ==
    IF ~HasDoc(s) \/ ~CanvasReady(s) THEN s
    ELSE LET s1 == [s EXCEPT !.last.overlay = TRUE] IN
         IF Loadable(s1.pdf_doc, s1.current_page)
         THEN RenderSearchHighlights(s1)
         ELSE s1

\* _render_annotations_continuous: loads the pages; its drawing code is
\* unreachable as well, so the canvas is left as it is.
RenderAnnotationsContinuous(s) ==
    IF ~HasDoc(s) THEN s ELSE [s EXCEPT !.last.overlay = TRUE]

(***************************************************************************)
(* Rendering on the interactive thread.                                     *)
(***************************************************************************)
FitZoomSingle(s) ==
    LET cw == s.canvas_size[1]  ch == s.canvas_size[2]  d == s.pdf_doc IN
    CASE s.fit_mode = "fit_page"   -> Min((cw * 1000) \div d.w, (ch * 1000) \div d.h)
      [] s.fit_mode = "fit_width"  -> (cw * 1000) \div d.w
      [] s.fit_mode = "fit_height" -> (ch * 1000) \div d.h
      [] OTHER                     -> s.zoom

\* page.get_pixmap draws the page with its annotations.
PageImage(doc, p, z, rot) ==
    [file |-> doc.file, page |-> p, zoom |-> z, rot |-> rot,
     w |-> PixW(doc, z, rot), h |-> PixH(doc, z, rot),
     annots |-> doc.pages[p + 1].annots]

ShowSinglePage(s) ==
    LET cw == s.canvas_size[1]
        ch == s.canvas_size[2]
        d  == s.pdf_doc
    IN
    IF ~Loadable(d, s.current_page) THEN s
    ELSE
    LET z   == FitZoomSingle(s)
        img == PageImage(d, s.current_page, z, s.rotation)
        s1  == [s EXCEPT !.pdf_scale = z, !.last.raster = TRUE,
                         !.issued.phase = IF @ = "installed" THEN "replaced" ELSE @]
        s2  ==
          IF s.fit_mode = "fit_page"
          THEN LET wide  == img.w * ch > cw * img.h
                   new_w == IF wide THEN cw ELSE (ch * img.w) \div img.h
                   new_h == IF wide THEN (cw * img.h) \div img.w ELSE ch
                   s3    == SetScrollRegion(s1, <<new_w, new_h>>)
               IN [s3 EXCEPT
                     !.images = <<img>>,
                     !.canvas_hl = <<>>,
                     !.canvas_pdf = <<[img |-> img, x |-> cw \div 2,
                                       y |-> ch \div 2,
                                       w |-> new_w, h |-> new_h]>>]
          ELSE LET scroll_width  == Max(img.w, cw)
                   scroll_height == Max(img.h, ch)
                   s3 == SetScrollRegion(s1, <<scroll_width, scroll_height>>)
               IN [s3 EXCEPT
                     !.images = <<img>>,
                     !.canvas_hl = <<>>,
                     !.canvas_pdf = <<[img |-> img, x |-> scroll_width \div 2,
                                       y |-> scroll_height \div 2,
                                       w |-> img.w, h |-> img.h]>>]
    IN RenderAnnotations(s2)

FitZoomContinuous(s) ==
    LET cw == s.canvas_size[1]  ch == s.canvas_size[2]  d == s.pdf_doc IN
    CASE s.fit_mode = "fit_width"  -> (cw * 1000) \div d.w
      [] s.fit_mode = "fit_page"   -> (cw * 1000) \div d.w
      [] s.fit_mode = "fit_height" -> (ch * 1000) \div d.h
      [] OTHER                     -> s.zoom

RenderState(s) ==
    <<s.canvas_size[1], s.canvas_size[2], s.fit_mode, s.zoom, s.rotation,
      NumPages(s)>>

\* The cache test of _show_continuous_scroll.
CacheHit(s) == s.continuous_render_state = RenderState(s) /\ s.images # <<>>

ContinuousJob(id, z, pw) ==
    [ctx |-> "continuous", render_id |-> id, zoom |-> z, page_width |-> pw,
     phase |-> "running", images |-> <<>>, page_heights |-> <<>>,
     total_height |-> 0]

ShowContinuousScroll(s) ==
    IF ~CanvasReady(s) THEN s
    ELSE IF ~Loadable(s.pdf_doc, 0) THEN s
    ELSE IF CacheHit(s)
    THEN LET s1 == RenderAnnotationsContinuous(s)
             s2 == IF s1.page_heights # <<>> THEN RenderSearchHighlights(s1) ELSE s1
         IN [s2 EXCEPT !.timers = @ \cup {"update_page_from_scroll"}]
    ELSE LET id  == s.continuous_render_id + 1
             job == ContinuousJob(id, FitZoomContinuous(s), s.pdf_doc.w)
         IN [s EXCEPT !.continuous_render_state = RenderState(s),
                      !.continuous_render_id = id,
                      !.canvas_pdf = <<>>,
                      !.canvas_hl = <<>>,
                      !.is_rendering = TRUE,
                      !.jobs = @ \cup {job},
                      !.issued = job]

ClampPage(s) ==
    LET p1 == IF s.current_page < 0 THEN 0 ELSE s.current_page
        p2 == IF p1 >= NumPages(s) THEN NumPages(s) - 1 ELSE p1
    IN [s EXCEPT !.current_page = p2]

ShowPage(s0) ==
    LET s == [s0 EXCEPT !.last.shows = @ + 1] IN
    IF ~HasDoc(s) THEN s
    ELSE LET s1 == ClampPage(s) IN
         IF ~CanvasReady(s1) THEN s1
         ELSE IF s1.view_mode = "continuous_scroll"
              THEN ShowContinuousScroll(s1)
              ELSE ShowSinglePage(s1)

(***************************************************************************)
(* The session record.                                                      *)
(***************************************************************************)
\* SESSION_FILE does not exist / does not parse as JSON.
NoSession == [kind |-> "missing"]
BadSession == [kind |-> "garbage"]
\* SESSION_FILE holds the JSON object data (a record of its keys).
SessionFile(data) == [kind |-> "json", data |-> data]

\* _save_last_session(file_path, page_num): the keys the source writes
\* (and a timestamp).
SaveLastSession(s, file_path, page_num) ==
    [s EXCEPT !.session =
        SessionFile([file |-> file_path, page |-> page_num, zoom |-> s.zoom,
                     rotation |-> s.rotation,
                     sidebar_visible |-> s.sidebar_visible])]

(***************************************************************************)
(* Thumbnails and document open.                                            *)
(***************************************************************************)
ThumbJob(id) ==
    [ctx |-> "thumb", render_id |-> id, zoom |-> 0, page_width |-> 0,
     phase |-> "running", images |-> <<>>, page_heights |-> <<>>,
     total_height |-> 0]

RenderThumbnails(s) ==
    IF ~HasDoc(s) THEN s
    ELSE LET id == s.thumb_render_id + 1 IN
         [s EXCEPT !.thumb_render_id = id,
                   !.is_rendering = TRUE,
                   !.jobs = @ \cup {ThumbJob(id)}]

\* fitz.open(file_path): the handle of a file that opens.
OpenHandle(s, f, origin) ==
    [file |-> f, origin |-> origin, w |-> s.disk[f].w, h |-> s.disk[f].h,
     pages |-> s.disk[f].pages, toc |-> s.disk[f].toc]

\* One title for every failure.
GenericTitle(kind) == "Error"

\* The title of the error dialog open_pdf shows for each failure.
OpenErrorTitle(kind) ==
    CASE kind = "FileNotFoundError" -> "File Not Found"
      [] kind = "EmptyFileError"    -> "Invalid PDF"
      [] kind = "FileDataError"     -> "PDF Error"
      [] kind = "IndexError"        -> "PDF Error"
      [] kind = "PermissionError"   -> "Permission Denied"
      [] kind = "format error"      -> "PDF Format Error"
      [] OTHER                      -> "Error"

\* cleanup_single_instance, bound to <Destroy> on the root window: Tk runs
\* the binding for the destruction of every widget inside the root window,
\* not only for that of the root itself.
CleanupSingleInstance(s) == [s EXCEPT !.instance_socket = "closed"]

\* _show_sidebar_loading(False) after _show_sidebar_loading(True): the
\* 'Loading...' label, a child of the thumbnail frame, is destroyed.
HideSidebarLoading(s) == CleanupSingleInstance(s)

\* open_pdf with a path.  Every way out of it, the error branches included,
\* hides the loading label.
OpenPdf(s0, f) ==
    LET s == [s0 EXCEPT !.last.value = <<f>>] IN
    HideSidebarLoading(
    IF ~(f \in DOMAIN s.disk)
    THEN Alert([s EXCEPT !.pdf_doc = NoDoc], "error", OpenErrorTitle("FileNotFoundError"))
    ELSE IF s.disk[f].kind # "pdf"
    THEN Alert([s EXCEPT !.pdf_doc = NoDoc], "error", OpenErrorTitle(s.disk[f].kind))
    ELSE IF Len(s.disk[f].pages) = 0
    THEN Alert([s EXCEPT !.pdf_doc = NoDoc], "error", "Invalid PDF")
    ELSE LET s1 == [s EXCEPT !.pdf_doc = OpenHandle(s, f, "open_pdf"),
                             !.current_pdf_path = f,
                             !.current_page = 0,
                             !.zoom = 1000,
                             !.rotation = 0]
             s2 == RenderThumbnails(s1)
             s3 == [s2 EXCEPT !.fit_mode = "fit_page",
                              !.view_mode = "single_page"]
             s4 == ShowPage(s3)
             s5 == [s4 EXCEPT !.timers = @ \cup {"show_page"}]
         IN SaveLastSession(s5, f, s5.current_page))

(***************************************************************************)
(* Worker threads.  A worker reads self.pdf_doc and self.rotation when it   *)
(* runs, not when it was started.                                           *)
(***************************************************************************)
RECURSIVE ThumbImages(_, _)
ThumbImages(doc, p) ==
    IF p >= Len(doc.pages) THEN <<>>
    ELSE (IF Loadable(doc, p) THEN <<[file |-> doc.file, page |-> p]>> ELSE <<>>)
         \o ThumbImages(doc, p + 1)

\* The thumbnail worker: the callback is posted from a finally clause, so
\* it is posted (with what was collected) even when len(self.pdf_doc) raises.
ThumbWorker(s, job) ==
    LET imgs == IF HasDoc(s) THEN ThumbImages(s.pdf_doc, 0) ELSE <<>>
        done == [job EXCEPT !.phase = "posted", !.images = imgs]
    IN [s EXCEPT !.jobs = (@ \ {job}) \cup {done},
                 !.last.raster = (imgs # <<>>)]

RECURSIVE ContinuousImages(_, _, _, _)
ContinuousImages(doc, p, z, rot) ==
    IF p >= Len(doc.pages) THEN <<>>
    ELSE (IF Loadable(doc, p) THEN <<PageImage(doc, p, z, rot)>> ELSE <<>>)
         \o ContinuousImages(doc, p + 1, z, rot)

Heights(imgs) == [i \in 1..Len(imgs) |-> imgs[i].h]

RECURSIVE TotalHeight(_)
TotalHeight(hs) ==
    IF hs = <<>> THEN 0 ELSE Head(hs) + PageGap + TotalHeight(Tail(hs))

\* The continuous-scroll worker: with no document len(self.pdf_doc) raises
\* and the thread ends without posting anything.
ContinuousWorker(s, job) ==
    IF ~HasDoc(s)
    THEN [s EXCEPT !.jobs = @ \ {job},
                   !.issued = IF @ = job THEN [job EXCEPT !.phase = "died"] ELSE @]
    ELSE LET imgs == ContinuousImages(s.pdf_doc, 0, job.zoom, s.rotation)
             done == [job EXCEPT !.phase = "posted", !.images = imgs,
                                 !.page_heights = Heights(imgs),
                                 !.total_height = TotalHeight(Heights(imgs))]
         IN [s EXCEPT !.jobs = (@ \ {job}) \cup {done},
                      !.issued = IF @ = job THEN done ELSE @,
                      !.last.raster = (imgs # <<>>)]

(***************************************************************************)
(* Delivery of a worker's result on the interactive thread.                 *)
(***************************************************************************)
\* A delivery that does not compare generations.
StaleAccepted(s, job) == TRUE

ThumbIsCurrent(s, job) == job.render_id = s.thumb_render_id

\* A current result replaces the thumbnail widgets: the old ones are
\* destroyed first.
ApplyThumbnails(s, job) ==
    LET s1 == [s EXCEPT !.jobs = @ \ {job}] IN
    IF ~ThumbIsCurrent(s, job) THEN [s1 EXCEPT !.last.dropped = TRUE]
    ELSE LET s2 == IF s1.thumbnails # <<>> THEN CleanupSingleInstance(s1) ELSE s1
         IN [s2 EXCEPT !.thumbnails = job.images, !.is_rendering = FALSE]

ContinuousIsCurrent(s, job) == job.render_id = s.continuous_render_id

RECURSIVE ContinuousItems(_, _, _)
ContinuousItems(imgs, cw, y_offset) ==
    IF imgs = <<>> THEN <<>>
    ELSE <<[img |-> Head(imgs), x |-> cw \div 2,
            y |-> y_offset + (Head(imgs).h \div 2),
            w |-> Head(imgs).w, h |-> Head(imgs).h]>>
         \o ContinuousItems(Tail(imgs), cw, y_offset + Head(imgs).h + PageGap)

ApplyContinuousRender(s, job) ==
    LET s1 == [s EXCEPT !.jobs = @ \ {job}] IN
    IF ~ContinuousIsCurrent(s, job)
    THEN [s1 EXCEPT !.last.dropped = TRUE,
                    !.issued.phase = IF s.issued = job THEN "dropped" ELSE @]
    ELSE LET cw == s.canvas_size[1]
             s2 == [s1 EXCEPT !.images = job.images,
                              !.issued.phase = IF s.issued = job THEN "installed" ELSE @,
                              !.canvas_pdf = ContinuousItems(job.images, cw, 0),
                              !.canvas_hl = <<>>,
                              !.page_heights = job.page_heights,
                              !.continuous_zoom = job.zoom]
             scroll_width == Max(cw, (job.page_width * job.zoom) \div 1000)
             s3 == SetScrollRegion(s2, <<scroll_width, Max(job.total_height, 1)>>)
             s4 == RenderAnnotationsContinuous(s3)
             s5 == IF s4.page_heights # <<>> THEN RenderSearchHighlights(s4) ELSE s4
         IN [s5 EXCEPT !.timers = @ \cup {"update_page_from_scroll"},
                       !.is_rendering = FALSE]

(***************************************************************************)
(* Navigation and view-state handlers.                                      *)
(***************************************************************************)
PrevPage(s) ==
    IF HasDoc(s) /\ s.current_page > 0
    THEN LET s1 == ShowPage([s EXCEPT !.current_page = @ - 1])
         IN SaveLastSession(s1, s1.pdf_doc.file, s1.current_page)
    ELSE s

NextPage(s) ==
    IF HasDoc(s) /\ s.current_page < NumPages(s) - 1
    THEN LET s1 == ShowPage([s EXCEPT !.current_page = @ + 1])
         IN SaveLastSession(s1, s1.pdf_doc.file, s1.current_page)
    ELSE s

\* go_to_page, and _goto_page_from_entry with the entry holding page_num + 1.
GoToPage(s, page_num) ==
    IF HasDoc(s) /\ 0 <= page_num /\ page_num < NumPages(s)
    THEN LET s1 == ShowPage([s EXCEPT !.current_page = page_num])
         IN SaveLastSession(s1, s1.pdf_doc.file, s1.current_page)
    ELSE s

\* A zoom that is not clamped.
NoClamp(z) == z

ClampZoom(z) == Max(ZoomMin, Min(z, ZoomMax))

ChangeZoom(s, factor) ==
    IF ~HasDoc(s) THEN s
    ELSE ShowPage([s EXCEPT !.fit_mode = "actual_size",
                            !.zoom = ClampZoom((@ * factor) \div 1000)])

RotatePage(s) ==
    IF HasDoc(s)
    THEN ShowPage([s EXCEPT !.rotation = (@ + 90) % 360])
    ELSE s

\* _on_fit_mode_change / _on_fit_mode_change_combo after the widget has set
\* the variable to mode.
FitModeChange(s, mode) == ShowPage([s EXCEPT !.fit_mode = mode])

\* toggle_fit: between fit_page and actual_size.
ToggleFit(s) ==
    ShowPage([s EXCEPT !.fit_mode =
                 IF @ = "fit_page" THEN "actual_size" ELSE "fit_page"])

ToggleViewMode(s) ==
    ShowPage([s EXCEPT !.view_mode =
                 IF @ = "single_page" THEN "continuous_scroll" ELSE "single_page"])

\* _on_resize, delivered once the canvas has its new size: one pending
\* debounce timer replaces the previous one.
\* self.after(ms, self._debounced_resize): the callback is pending under
\* an id that no pending callback holds, and the id is kept.
ScheduleResize(s) ==
    LET id == CHOOSE i \in 1..(Cardinality(s.resize_timers) + 1) :
                  i \notin s.resize_timers
    IN [s EXCEPT !.resize_timers = @ \cup {id}, !.resize_after_id = id]

\* A resize that leaves the pending callback alone.
KeepPending(s) == s

\* after_cancel(self._resize_after_id) if an id is kept.
CancelPending(s) ==
    IF s.resize_after_id # 0
    THEN [s EXCEPT !.resize_timers = @ \ {s.resize_after_id}]
    ELSE s

\* The <Configure> event: the canvas has its new size when the handler runs.
OnResize(s, size) ==
    ScheduleResize(CancelPending(
        [s EXCEPT !.canvas_size = size,
                  !.scroll_y = Min(@, MaxScroll(s.scrollregion, size))]))

\* The callback pending under id fires.
DebouncedResize(s, id) ==
    LET s1 == [s EXCEPT !.resize_timers = @ \ {id}, !.resize_after_id = 0] IN
    IF s1.is_rendering
    THEN ScheduleResize(s1)
    ELSE ShowPage(s1)

\* A mouse-wheel or scrollbar scroll to offset y (_on_canvas_mousewheel,
\* _v_scroll_command).
ScrollTo(s, y) ==
    LET s1 == [s EXCEPT !.scroll_y = y] IN
    IF s.view_mode = "continuous_scroll"
    THEN [s1 EXCEPT !.timers = @ \cup {"update_page_from_scroll"}]
    ELSE s1

\* The index _update_page_from_scroll finds for offset y, or -1.
RECURSIVE ScrollPage(_, _, _, _)
ScrollPage(hs, i, cumulative, y) ==
    IF i > Len(hs) THEN -1
    ELSE IF y < cumulative + hs[i] THEN i - 1
    ELSE ScrollPage(hs, i + 1, cumulative + hs[i] + PageGap, y)

UpdatePageFromScroll(s) ==
    LET s1 == [s EXCEPT !.timers = @ \ {"update_page_from_scroll"}] IN
    IF s1.view_mode # "continuous_scroll" THEN s1
    ELSE LET i == ScrollPage(s1.page_heights, 1, 0, s1.scroll_y) IN
         IF i >= 0 /\ s1.current_page # i
         THEN [s1 EXCEPT !.current_page = i]
         ELSE s1

\* The self.after(100, self.show_page) of open_pdf.
DeferredShowPage(s) == ShowPage([s EXCEPT !.timers = @ \ {"show_page"}])

(***************************************************************************)
(* Coordinate mapping (document points <-> canvas pixels).                  *)
(***************************************************************************)
\* Top-left corner of the first 'pdf_image' item, doubled (the source
\* computes centre - size / 2 in floating point).
TopLeft2(s) ==
    IF s.canvas_pdf = <<>> THEN <<0, 0>>
    ELSE LET it == s.canvas_pdf[1] IN <<2 * it.x - it.w, 2 * it.y - it.h>>

\* pdf_to_canvas, rounded down to whole pixels.
PdfToCanvas(s, x, y) ==
    <<(2 * ((x * s.pdf_scale) \div 1000) + TopLeft2(s)[1]) \div 2,
      (2 * ((y * s.pdf_scale) \div 1000) + TopLeft2(s)[2]) \div 2>>

\* canvas_to_pdf, rounded down to whole document units.  Reading
\* self._pdf_scale raises while the attribute is unset (pdf_scale = 0):
\* callers test that before they use this.
CanvasToPdf(s, x, y) ==
    <<((2 * x - TopLeft2(s)[1]) * 1000) \div (2 * s.pdf_scale),
      ((2 * y - TopLeft2(s)[2]) * 1000) \div (2 * s.pdf_scale)>>

\* The same two functions in exact arithmetic, on fractions <<n, d>> with
\* d > 0 (the source computes in floating point; PdfToCanvas and
\* CanvasToPdf above are these rounded down).
RECURSIVE Gcd(_, _)
Gcd(a, b) == IF b = 0 THEN a ELSE Gcd(b, a % b)
Abs(n) == IF n < 0 THEN -n ELSE n
Frac(n, d) ==
    LET g == Gcd(Abs(n), d) IN <<n \div g, d \div g>>
FracPoint(p) == <<Frac(p[1], 1), Frac(p[2], 1)>>

\* A pdf_to_canvas that scales and forgets where the image is.
PdfToCanvasNoOffset(s, x, y) ==
    <<Frac(x[1] * s.pdf_scale, x[2] * 1000),
      Frac(y[1] * s.pdf_scale, y[2] * 1000)>>

\* cx = x * self._pdf_scale + pdf_top_left_x
PdfToCanvasExact(s, x, y) ==
    <<Frac(2 * x[1] * s.pdf_scale + TopLeft2(s)[1] * x[2] * 1000, 2 * x[2] * 1000),
      Frac(2 * y[1] * s.pdf_scale + TopLeft2(s)[2] * y[2] * 1000, 2 * y[2] * 1000)>>

\* px = (x - pdf_top_left_x) / self._pdf_scale
CanvasToPdfExact(s, x, y) ==
    <<Frac((2 * x[1] - TopLeft2(s)[1] * x[2]) * 1000, 2 * x[2] * s.pdf_scale),
      Frac((2 * y[1] - TopLeft2(s)[2] * y[2]) * 1000, 2 * y[2] * s.pdf_scale)>>

\* A call of one of the two functions from outside: reading
\* self._pdf_scale raises AttributeError until _show_single_page has set it.
MapperCall(s, fn, p) ==
    LET s1 == [s EXCEPT !.last.at = p] IN
    IF s.pdf_scale = 0 THEN [s1 EXCEPT !.last.raised = TRUE]
    ELSE [s1 EXCEPT !.last.value =
             IF fn = "canvas_to_pdf"
             THEN CanvasToPdfExact(s, Frac(p[1], 1), Frac(p[2], 1))
             ELSE PdfToCanvasExact(s, Frac(p[1], 1), Frac(p[2], 1))]

(***************************************************************************)
(* Persistence.  io is what the file system and the library do with this   *)
(* commit: "ok" (saveIncr succeeds), "incr_fails" (saveIncr raises, the     *)
(* full save succeeds), or saveIncr raises and then the save to the         *)
(* temporary file, the move or the reopen raises.                           *)
(***************************************************************************)
IOOutcomes == {"ok", "incr_fails", "save_fails", "move_fails", "reopen_fails"}

\* The content of the open document, as a save writes it.
Content(s) ==
    [kind |-> "pdf", w |-> s.pdf_doc.w, h |-> s.pdf_doc.h,
     pages |-> s.pdf_doc.pages, toc |-> s.pdf_doc.toc]

WriteFile(s, path) == [s EXCEPT !.disk[path] = Content(s)]

\* A fallback that leaves the handle as it is.
KeepHandle(s, path, origin) == s

\* A reload that also goes back to the first page, as open_pdf does.
ReopenFirstPage(s, path, origin) ==
    [s EXCEPT !.pdf_doc = OpenHandle(s, path, origin), !.current_page = 0]

\* self.pdf_doc = fitz.open(path)
Reopen(s, path, origin) == [s EXCEPT !.pdf_doc = OpenHandle(s, path, origin)]

\* The full save: temporary file, shutil.move over path, reopen.  The
\* result has last.full = "ok" or "failed".
FullSave(s, path, origin, io) ==
    IF io \in {"save_fails", "move_fails"}
    THEN [s EXCEPT !.last.full = "failed"]
    ELSE LET s1 == WriteFile(s, path) IN
         IF io = "reopen_fails"
         THEN [s1 EXCEPT !.last.full = "failed"]
         ELSE [Reopen(s1, path, origin) EXCEPT !.last.full = "ok"]

\* What _save_pdf_safe tells the user when show_message is set.
Saved(s, show_message) ==
    LET s1 == [s EXCEPT !.last.saved = "true"] IN
    IF show_message THEN Alert(s1, "success", "Saved") ELSE s1

SaveFailed(s, show_message) ==
    LET s1 == [s EXCEPT !.last.saved = "false"] IN
    IF show_message THEN Alert(s1, "error", "Save Error") ELSE s1

SavePdfSafe(s, show_message, io) ==
    LET s0 == [s EXCEPT !.last.commits = @ + 1] IN
    IF ~HasDoc(s0) \/ s0.current_pdf_path = "none"
    THEN LET s1 == [s0 EXCEPT !.last.saved = "false"] IN
         IF show_message THEN Alert(s1, "warning", "No PDF") ELSE s1
    ELSE IF io = "ok"
    THEN Saved([WriteFile(s0, s0.pdf_doc.file) EXCEPT !.last.incr = "ok"],
               show_message)
    ELSE LET s1 == FullSave([s0 EXCEPT !.last.incr = "failed"],
                            s0.current_pdf_path, "save_pdf_safe", io)
         IN IF s1.last.full = "ok"
            THEN Saved(s1, show_message)
            ELSE SaveFailed(s1, show_message)

\* save_pdf
SavePdf(s, io) == SavePdfSafe(s, TRUE, io)

(***************************************************************************)
(* Annotations.                                                             *)
(***************************************************************************)
SetMin(S) == CHOOSE x \in S : \A y \in S : x <= y
SetMax(S) == CHOOSE x \in S : \A y \in S : x >= y

Annots(doc, p) == doc.pages[p + 1].annots
SetAnnots(s, p, annots) == [s EXCEPT !.pdf_doc.pages[p + 1].annots = annots]
RemoveAt(seq, i) == SubSeq(seq, 1, i - 1) \o SubSeq(seq, i + 1, Len(seq))

\* page.add_ink_annot([points]): one stroke; the library derives the
\* rectangle from the points.
InkAnnot(points) ==
    LET xs == {points[i][1] : i \in DOMAIN points}
        ys == {points[i][2] : i \in DOMAIN points}
    IN Annot("ink", Rect(SetMin(xs), SetMin(ys), SetMax(xs), SetMax(ys)), points)

\* rect.contains(point)
RectContains(r, px, py) ==
    r.x0 <= px /\ px <= r.x1 /\ r.y0 <= py /\ py <= r.y1

Sq(x) == x * x

\* The distance to the whole line through the two points: a projection
\* that is not clamped.
PointToLineWithin(px, py, x0, y0, x1, y1, tolerance) ==
    LET dx == x1 - x0
        dy == y1 - y0
    IN IF dx = 0 /\ dy = 0
       THEN Sq(px - x0) + Sq(py - y0) <= Sq(tolerance)
       ELSE Sq((px - x0) * dy - (py - y0) * dx) <= Sq(tolerance) * (dx * dx + dy * dy)

\* _point_to_segment_dist(px, py, x0, y0, x1, y1) <= tolerance, in exact
\* integer arithmetic: the projection parameter t is clamped to [0, 1].
PointToSegmentWithin(px, py, x0, y0, x1, y1, tolerance) ==
    LET dx   == x1 - x0
        dy   == y1 - y0
        dot  == (px - x0) * dx + (py - y0) * dy
        len2 == dx * dx + dy * dy
    IN IF dx = 0 /\ dy = 0
       THEN Sq(px - x0) + Sq(py - y0) <= Sq(tolerance)
       ELSE IF dot <= 0
       THEN Sq(px - x0) + Sq(py - y0) <= Sq(tolerance)
       ELSE IF dot >= len2
       THEN Sq(px - x1) + Sq(py - y1) <= Sq(tolerance)
       ELSE Sq((px - x0) * dy - (py - y0) * dx) <= Sq(tolerance) * len2

IsPointNearInk(annot, px, py, tolerance) ==
    /\ annot.type = "ink"
    /\ \E i \in 1..(Len(annot.points) - 1) :
          PointToSegmentWithin(px, py,
                               annot.points[i][1], annot.points[i][2],
                               annot.points[i + 1][1], annot.points[i + 1][2],
                               tolerance)

\* The hit test of the Delete key: the rectangle only.
DeleteKeyHit(annot, px, py) == RectContains(annot.rect, px, py)

\* The hit test of the eraser.
EraseHit(annot, px, py) ==
    \/ RectContains(annot.rect, px, py)
    \/ annot.type = "ink" /\ IsPointNearInk(annot, px, py, EraseTolerance)

\* Any stroke that is more than a click is committed.
AnyStroke(points) == Len(points) >= 2

\* The test of _end_draw on the points of the gesture.
EnoughPoints(points) == Len(points) >= MinInkPoints

\* A loop that keeps the last hit instead of stopping at the first.
LastIn(S) == IF S = {} THEN 0 ELSE SetMax(S)

\* A loop over the annotations that stops at the first hit: its index (0: none).
FirstIn(S) == IF S = {} THEN 0 ELSE SetMin(S)

StartDraw(s, pt) == [s EXCEPT !.draw_points = <<pt>>, !.draw_line = TRUE]

DrawDraw(s, pt) ==
    IF s.draw_line THEN [s EXCEPT !.draw_points = Append(@, pt)] ELSE s

\* _end_draw.  An exception leaves the handler before its cleanup.
EndDraw(s, io) ==
    IF ~s.draw_line THEN s
    ELSE LET s1 ==
               IF ~EnoughPoints(s.draw_points) THEN s
               ELSE IF ~HasDoc(s) \/ ~Loadable(s.pdf_doc, s.current_page)
                       \/ s.pdf_scale = 0
               THEN [s EXCEPT !.last.raised = TRUE]
               ELSE LET pdf_points ==
                            [i \in 1..Len(s.draw_points) |->
                                CanvasToPdf(s, s.draw_points[i][1],
                                               s.draw_points[i][2])]
                        s2 == SetAnnots(s, s.current_page,
                                  Append(Annots(s.pdf_doc, s.current_page),
                                         InkAnnot(pdf_points)))
                        s3 == SavePdfSafe([s2 EXCEPT !.last.edit = "added"],
                                          FALSE, io)
                    IN RenderAnnotations(s3)
         IN IF s1.last.raised THEN s1
            ELSE [s1 EXCEPT !.draw_line = FALSE, !.draw_points = <<>>,
                            !.canvas_lines = @ \cup {s.draw_points}]

\* _erase_annot with the pointer at window position pt.
EraseAnnot(s, pt, io) ==
    LET s0 == [s EXCEPT !.last.at = pt] IN
    IF ~HasDoc(s0) \/ ~Loadable(s0.pdf_doc, s0.current_page) THEN s0
    ELSE IF s0.pdf_scale = 0 THEN [s0 EXCEPT !.last.raised = TRUE]
    ELSE LET p      == CanvasToPdf(s0, pt[1], pt[2] + s0.scroll_y)
             annots == Annots(s0.pdf_doc, s0.current_page)
             found  == FirstIn({i \in DOMAIN annots :
                                   EraseHit(annots[i], p[1], p[2])})
         IN IF found = 0
            THEN Alert(s0, "info", "Eraser")
            ELSE LET s1 == SetAnnots(s0, s0.current_page, RemoveAt(annots, found))
                     s2 == SavePdfSafe([s1 EXCEPT !.last.edit = "removed"],
                                       FALSE, io)
                 IN RenderAnnotations(s2)

\* _delete_annot_under_mouse (the Delete key): its own save, not in a try,
\* then show_page.
DeleteAnnotUnderMouse(s, pt, io) ==
    LET s0 == [s EXCEPT !.last.at = pt] IN
    IF ~HasDoc(s0) \/ ~Loadable(s0.pdf_doc, s0.current_page) THEN s0
    ELSE LET annots == Annots(s0.pdf_doc, s0.current_page) IN
    IF annots = <<>> THEN s0
    ELSE IF s0.pdf_scale = 0 THEN [s0 EXCEPT !.last.raised = TRUE]
    ELSE LET p     == CanvasToPdf(s0, pt[1], pt[2] + s0.scroll_y)
             found == FirstIn({i \in DOMAIN annots :
                                  DeleteKeyHit(annots[i], p[1], p[2])})
         IN IF found = 0 THEN s0
            ELSE LET s1 == [SetAnnots(s0, s0.current_page, RemoveAt(annots, found))
                               EXCEPT !.last.edit = "removed",
                                      !.last.commits = @ + 1]
                     s2 == IF io = "ok"
                           THEN [WriteFile(s1, s1.pdf_doc.file)
                                    EXCEPT !.last.incr = "ok"]
                           ELSE FullSave([s1 EXCEPT !.last.incr = "failed"],
                                         s1.pdf_doc.file,
                                         "delete_annot_under_mouse", io)
                 IN IF s2.last.full = "failed"
                    THEN [s2 EXCEPT !.last.raised = TRUE]
                    ELSE ShowPage(s2)

\* _add_bookmark; titled: the prompt returned a title.  _save_pdf_safe's
\* result is not looked at.
AddBookmark(s, titled, io) ==
    IF ~HasDoc(s) THEN Alert(s, "warning", "No PDF")
    ELSE IF ~titled THEN s
    ELSE LET s1 == [s EXCEPT !.pdf_doc.toc = Append(@, s.current_page + 1)]
             s2 == SavePdfSafe(s1, FALSE, io)
         IN Alert(s2, "success", "Bookmark Added")

(***************************************************************************)
(* Search.                                                                  *)
(***************************************************************************)
\* The k-th rectangle page.search_for reports on a page.
HitRect(k) == [x0 |-> 10, y0 |-> 20 * k, x1 |-> 30, y1 |-> 20 * k + 10]

\* Number of rectangles page.search_for(text) reports.
Hits(page, text) == IF text = "x" THEN page.hits ELSE 0

RECURSIVE PageResults(_, _, _)
PageResults(page_num, n, k) ==
    IF k > n THEN <<>>
    ELSE <<[page |-> page_num, rect |-> HitRect(k)]>> \o PageResults(page_num, n, k + 1)

\* A search loop that ends at the first page that fails to load.
StopAtPage(found, rest) == found

\* What the search loop does with a page that fails to load: it goes on
\* with the pages after it.
SkipPage(found, rest) == found \o rest

\* The search loop from page_num on.
RECURSIVE SearchFrom(_, _, _)
SearchFrom(doc, text, page_num) ==
    IF page_num >= Len(doc.pages) THEN <<>>
    ELSE IF ~Loadable(doc, page_num)
         THEN SkipPage(<<>>, SearchFrom(doc, text, page_num + 1))
         ELSE PageResults(page_num, Hits(doc.pages[page_num + 1], text), 1)
              \o SearchFrom(doc, text, page_num + 1)

\* A cursor that stops at the last result.
NextIndexNoWrap(i, n) == IF i + 1 < n THEN i + 1 ELSE i

\* A cursor that steps back without wrapping.
PrevIndexNoWrap(i, n) == i - 1

NextIndex(i, n) == IF i >= 0 THEN (i + 1) % n ELSE 0
PrevIndex(i, n) == IF i >= 0 THEN (i - 1) % n ELSE n - 1

\* _navigate_to_search_result.  In continuous mode the scroll computation
\* compares an int with the string cget returns and raises; in single-page
\* mode it goes through pdf_to_canvas.
NavigateToSearchResult(s) ==
    IF s.search_results = <<>> \/ s.current_search_index < 0 THEN s
    ELSE LET result == s.search_results[s.current_search_index + 1]
             s1 == IF result.page # s.current_page
                   THEN ShowPage([s EXCEPT !.current_page = result.page])
                   ELSE s
             s2 == RenderSearchHighlights(s1)
         IN IF s2.last.raised THEN s2
            ELSE IF s2.view_mode = "continuous_scroll"
            THEN [s2 EXCEPT !.last.raised = TRUE]
            ELSE IF s2.pdf_scale = 0 THEN [s2 EXCEPT !.last.raised = TRUE]
            ELSE LET r  == result.rect
                     cy == PdfToCanvas(s2, r.x0 + (r.x1 - r.x0) \div 2,
                                           r.y0 + (r.y1 - r.y0) \div 2)[2]
                     y  == Max(0, cy - s2.canvas_size[2] \div 2)
                 IN [s2 EXCEPT !.scroll_y =
                        Min(y, MaxScroll(s2.scrollregion, s2.canvas_size))]

FindNextStep(s) ==
    NavigateToSearchResult(
        [s EXCEPT !.current_search_index =
             NextIndex(@, Len(s.search_results))])

\* _do_search.
DoSearch(s) ==
    IF s.search_text = "" THEN s
    ELSE LET s1 == [s EXCEPT !.search_results = <<>>,
                             !.current_search_index = -1]
         IN IF ~HasDoc(s1) THEN [s1 EXCEPT !.last.raised = TRUE]
            ELSE LET s2 == [s1 EXCEPT !.search_results =
                                SearchFrom(s1.pdf_doc, s1.search_text, 0)]
                 IN IF s2.search_results # <<>>
                    THEN FindNextStep([s2 EXCEPT !.current_search_index = 0])
                    ELSE [s2 EXCEPT !.canvas_hl = <<>>]

FindNext(s) ==
    IF s.search_results = <<>> THEN DoSearch(s) ELSE FindNextStep(s)

FindPrevious(s) ==
    IF s.search_results = <<>> THEN DoSearch(s)
    ELSE NavigateToSearchResult(
             [s EXCEPT !.current_search_index =
                  PrevIndex(@, Len(s.search_results))])

\* A key release in the find entry, leaving it with text.
OnFindTextChange(s, text) ==
    [s EXCEPT !.search_text = text,
              !.search_results = <<>>,
              !.current_search_index = -1,
              !.canvas_hl = <<>>]

(***************************************************************************)
(* A second process (the __main__ block and the head of __init__).          *)
(***************************************************************************)
RaiseSentinel == "__RAISE__"

\* No second process has been started.
NoSecond ==
    [phase |-> "none", argv |-> "", initial_pdf |-> "", windows |-> 0,
     bound |-> FALSE, connected |-> FALSE, sent |-> <<>>,
     listener |-> FALSE, opened |-> "none"]

\* __main__: the argument is passed on only if its name ends in .pdf (the
\* files "a", "b" and "gone" stand for such names, "notes" for another).
PdfFileToOpen(argv) == IF argv \in {"", "notes"} THEN "" ELSE argv

\* A payload that ignores the file argument.
AlwaysSentinel(pdf_path) == RaiseSentinel

\* is_already_running: what the failing side sends.
Payload(pdf_path) == IF pdf_path # "" THEN pdf_path ELSE RaiseSentinel

\* __main__ up to splash.mainloop(): the splash window is created and shown.
StartSecond(argv) ==
    [NoSecond EXCEPT !.phase = "splash", !.argv = argv,
                     !.initial_pdf = PdfFileToOpen(argv), !.windows = 1]

(***************************************************************************)
(* The state after construction (PDFReaderApp.__init__) and the first       *)
(* layout of the window: the canvas has its size, nothing is open.  This    *)
(* process was the first to bind the port, and its listener runs.           *)
(***************************************************************************)
InitFields(size) ==
    /\ pdf_doc = NoDoc
    /\ current_pdf_path = "none"
    /\ current_page = 0
    /\ zoom = 1000
    /\ rotation = 0
    /\ fit_mode = "fit_page"
    /\ view_mode = "single_page"
    /\ canvas_size = size
    /\ thumbnails = <<>>
    /\ images = <<>>
    /\ page_heights = <<>>
    /\ continuous_zoom = 1000
    /\ thumb_render_id = 0
    /\ continuous_render_id = 0
    /\ continuous_render_state = <<>>
    /\ is_rendering = FALSE
    /\ pdf_scale = 0
    /\ canvas_pdf = <<>>
    /\ scrollregion = <<0, 0>>
    /\ scroll_y = 0
    /\ jobs = {}
    /\ search_text = ""
    /\ search_results = <<>>
    /\ current_search_index = -1
    /\ draw_points = <<>>
    /\ draw_line = FALSE
    /\ canvas_hl = <<>>
    /\ instance_socket = "listening"
    /\ listener = "running"
    /\ backlog = <<>>
    /\ posted = <<>>
    /\ second = NoSecond
    /\ issued = [ContinuousJob(0, 0, 0) EXCEPT !.phase = "none"]
    /\ sidebar_visible = TRUE
    /\ restore_page = -1
    /\ ui_at = "idle"
    /\ resize_after_id = 0
    /\ resize_timers = {}
    /\ canvas_lines = {}
    /\ last = Quiet("init")
    /\ nOps = 0

\* No session file was there when _load_last_session ran.
InitApp(size) ==
    /\ InitFields(size)
    /\ session = NoSession
    /\ timers = {}

\* The files of the rendering model: a three-page and a one-page document
\* of different page sizes, and a file the library rejects.
RenderDisk ==
    [a   |-> PdfFile(60, 80, <<Page(TRUE, 1, <<>>), Page(TRUE, 0, <<>>),
                               Page(TRUE, 1, <<>>)>>),
     b   |-> PdfFile(60, 200, <<Page(TRUE, 1, <<>>)>>),
     bad |-> BrokenFile("FileDataError")]

CanvasSizes == {<<60, 80>>, <<120, 80>>}
ScrollStops == {0, 80}

Init == InitApp(<<60, 80>>) /\ disk = RenderDisk /\ budget = MaxOps

(***************************************************************************)
(* Actions: one per handler.                                                *)
(***************************************************************************)
InBounds(s) ==
    /\ s.thumb_render_id <= MaxGen
    /\ s.continuous_render_id <= MaxGen

\* A handler run by a user gesture.
Gesture(s) ==
    /\ nOps < budget
    /\ InBounds(s)
    /\ nOps' = nOps + 1
    /\ budget' = budget
    /\ Commit(s)
    /\ UNCHANGED <<listener, backlog, posted, second>>
\* A handler run by a timer, a worker thread or a posted callback, or by
\* the motion and release events that continue a gesture.
Async(s) ==
    /\ InBounds(s)
    /\ nOps' = nOps
    /\ budget' = budget
    /\ Commit(s)
    /\ UNCHANGED <<listener, backlog, posted, second>>

DoOpenPdf == \E f \in DOMAIN disk : Gesture(OpenPdf(Begin(Self, "open_pdf"), f))
DoNextPage == Gesture(NextPage(Begin(Self, "view")))
DoPrevPage == Gesture(PrevPage(Begin(Self, "view")))
DoGoToPage == \E p \in 0..2 : Gesture(GoToPage(Begin(Self, "view"), p))
DoChangeZoom == \E f \in ZoomFactors : Gesture(ChangeZoom(Begin(Self, "view"), f))
DoRotatePage == Gesture(RotatePage(Begin(Self, "view")))
DoFitModeChange ==
    \E m \in FitModes \ {fit_mode} :
        Gesture(FitModeChange(Begin(Self, "view"), m))
DoToggleFit == Gesture(ToggleFit(Begin(Self, "view")))
DoToggleViewMode == Gesture(ToggleViewMode(Begin(Self, "view")))
DoResize ==
    \E size \in CanvasSizes \ {canvas_size} :
        Gesture(OnResize(Begin(Self, "view"), size))
DoScroll ==
    \E y \in ScrollStops :
        /\ y <= MaxScroll(scrollregion, canvas_size)
        /\ Gesture(ScrollTo(Begin(Self, "view"), y))

DoDebouncedResize ==
    \E id \in resize_timers :
        Async(DebouncedResize(Begin(Self, "debounced_resize"), id))
DoDeferredShowPage ==
    /\ "show_page" \in timers
    /\ Async(DeferredShowPage(Begin(Self, "view")))
DoUpdatePageFromScroll ==
    /\ "update_page_from_scroll" \in timers
    /\ Async(UpdatePageFromScroll(Begin(Self, "view")))

DoThumbWorker ==
    \E job \in jobs :
        /\ job.ctx = "thumb" /\ job.phase = "running"
        /\ Async(ThumbWorker(Begin(Self, "worker"), job))
DoContinuousWorker ==
    \E job \in jobs :
        /\ job.ctx = "continuous" /\ job.phase = "running"
        /\ Async(ContinuousWorker(Begin(Self, "worker"), job))
DoApplyThumbnails ==
    \E job \in jobs :
        /\ job.ctx = "thumb" /\ job.phase = "posted"
        /\ Async(ApplyThumbnails(Begin(Self, "apply_thumbnails"), job))
DoApplyContinuousRender ==
    \E job \in jobs :
        /\ job.ctx = "continuous" /\ job.phase = "posted"
        /\ Async(ApplyContinuousRender(Begin(Self, "apply_continuous_render"), job))

Next ==
    \/ DoOpenPdf
    \/ DoNextPage
    \/ DoChangeZoom
    \/ DoRotatePage
    \/ DoFitModeChange
    \/ DoToggleViewMode
    \/ DoResize
    \/ DoDebouncedResize
    \/ DoDeferredShowPage
    \/ DoUpdatePageFromScroll
    \/ DoThumbWorker
    \/ DoContinuousWorker
    \/ DoApplyThumbnails
    \/ DoApplyContinuousRender

Spec == Init /\ [][Next]_vars

(***************************************************************************)
(* Annotation and persistence: one two-page document whose first page       *)
(* carries an ink stroke and a highlight in either order, or nothing.       *)
(***************************************************************************)
InkA == Annot("ink", Rect(10, 10, 30, 10), <<<<10, 10>>, <<30, 10>>>>)
BoxA == Annot("highlight", Rect(20, 5, 40, 30), <<>>)

AnnotLists == {<<>>, <<InkA, BoxA>>, <<BoxA, InkA>>}

AnnotDisk(annots) ==
    [a |-> PdfFile(60, 80, <<Page(TRUE, 0, annots), Page(TRUE, 0, <<>>)>>)]

\* Window positions of the pointer, and of the events of a stroke.
Pointers == {<<50, 20>>, <<30, 44>>, <<100, 120>>}
StrokePoints == {<<20, 20>>, <<60, 40>>}

InitAnnot ==
    /\ InitApp(<<120, 160>>)
    /\ disk \in {AnnotDisk(annots) : annots \in AnnotLists}
    /\ budget = MaxAnnotOps

DoStartDraw ==
    \E pt \in StrokePoints : Gesture(StartDraw(Begin(Self, "start_draw"), pt))
DoDrawDraw ==
    /\ draw_line
    /\ Len(draw_points) < MaxPoints
    /\ \E pt \in StrokePoints \ {draw_points[Len(draw_points)]} :
          Async(DrawDraw(Begin(Self, "draw_draw"), pt))
DoEndDraw ==
    /\ draw_line
    /\ \E io \in IOOutcomes : Async(EndDraw(Begin(Self, "end_draw"), io))
DoEraseAnnot ==
    \E pt \in Pointers, io \in IOOutcomes :
        Gesture(EraseAnnot(Begin(Self, "erase_annot"), pt, io))
DoDeleteAnnotUnderMouse ==
    \E pt \in Pointers, io \in IOOutcomes :
        Gesture(DeleteAnnotUnderMouse(Begin(Self, "delete_annot_under_mouse"),
                                      pt, io))
DoAddBookmark ==
    \E titled \in BOOLEAN, io \in IOOutcomes :
        Gesture(AddBookmark(Begin(Self, "add_bookmark"), titled, io))
DoSavePdf ==
    \E io \in IOOutcomes : Gesture(SavePdf(Begin(Self, "save_pdf"), io))

\* The user of the specifications below lets a document finish opening
\* (its thumbnails delivered, its deferred show_page run) before the next
\* gesture.
OpenSettled ==
    /\ "show_page" \notin timers
    /\ \A job \in jobs : job.ctx # "thumb"

NextAnnot ==
    \/ OpenSettled /\ DoOpenPdf
    \/ OpenSettled /\ DoNextPage
    \/ OpenSettled /\ DoStartDraw
    \/ DoDrawDraw
    \/ DoEndDraw
    \/ OpenSettled /\ DoEraseAnnot
    \/ OpenSettled /\ DoDeleteAnnotUnderMouse
    \/ OpenSettled /\ DoAddBookmark
    \/ OpenSettled /\ DoSavePdf
    \/ DoDeferredShowPage
    \/ DoThumbWorker
    \/ DoApplyThumbnails

SpecAnnot == InitAnnot /\ [][NextAnnot]_vars

(***************************************************************************)
(* Properties of annotation and persistence (under SpecAnnot).              *)
(***************************************************************************)
\* The pages other than the current one are the same after the step.
OtherPagesKept ==
    /\ Len(pdf_doc'.pages) = Len(pdf_doc.pages)
    /\ \A q \in DOMAIN pdf_doc.pages :
          q # current_page + 1 => pdf_doc'.pages[q] = pdf_doc.pages[q]

\* The handler can reach its hit test or its conversion: a document is
\* open, the current page loads and the page scale is set.
PageReady == HasDoc(Self) /\ Loadable(pdf_doc, current_page) /\ pdf_scale # 0

\* C4: ending an ink gesture of 1 or 2 points leaves the document's
\* annotations as they were and makes no commit call; ending one of 3 or
\* more points appends exactly one ink annotation with as many points to
\* the current page, touches no other page and makes one commit call.
C4_InkThreshold ==
    [][(last'.op = "end_draw" /\ draw_line /\ PageReady) =>
          LET n      == Len(draw_points)
              before == Annots(pdf_doc, current_page)
              after  == Annots(pdf_doc', current_page)
          IN IF n < 3
             THEN pdf_doc'.pages = pdf_doc.pages /\ last'.commits = 0
             ELSE /\ Len(after) = Len(before) + 1
                  /\ SubSeq(after, 1, Len(before)) = before
                  /\ after[Len(after)].type = "ink"
                  /\ Len(after[Len(after)].points) = n
                  /\ OtherPagesKept
                  /\ last'.commits = 1]_vars

\* A gesture of 3 or more points has just been committed as an ink
\* annotation.
C4_Witness ==
    /\ last.op = "end_draw"
    /\ last.edit = "added"
    /\ last.commits = 1
    /\ HasDoc(Self)
    /\ \E i \in DOMAIN Annots(pdf_doc, current_page) :
          /\ Annots(pdf_doc, current_page)[i].type = "ink"
          /\ Len(Annots(pdf_doc, current_page)[i].points) >= 3

\* The claim's hit test at document point p: the rectangle contains p or,
\* for ink, a stroke segment is within 14 units of p.
ClaimHit(annot, p) ==
    \/ RectContains(annot.rect, p[1], p[2])
    \/ annot.type = "ink" /\ IsPointNearInk(annot, p[1], p[2], 14)

\* C5: an erase removes at most one annotation of the current page: the
\* first, in enumeration order, whose rectangle contains the document-space
\* point or (ink) whose stroke passes within 14 units of it; the others
\* stay as they were; when none matches, nothing is removed and no commit
\* is made.
C5_EraseFirstMatch ==
    [][(last'.op = "erase_annot" /\ PageReady) =>
          LET before == Annots(pdf_doc, current_page)
              after  == Annots(pdf_doc', current_page)
              p      == CanvasToPdf(Self, last'.at[1], last'.at[2] + scroll_y)
              M      == {i \in DOMAIN before : ClaimHit(before[i], p)}
          IN IF M = {}
             THEN pdf_doc'.pages = pdf_doc.pages /\ last'.commits = 0
             ELSE /\ \E i \in M :
                        /\ \A j \in M : i <= j
                        /\ after = RemoveAt(before, i)
                  /\ OtherPagesKept
                  /\ last'.commits = 1]_vars

\* An erase has removed one annotation at a point that another annotation,
\* later in the order, matches as well and that one is still there.
C5_Witness ==
    /\ last.op = "erase_annot"
    /\ last.edit = "removed"
    /\ PageReady
    /\ \E i \in DOMAIN Annots(pdf_doc, current_page) :
          ClaimHit(Annots(pdf_doc, current_page)[i],
                   CanvasToPdf(Self, last.at[1], last.at[2] + scroll_y))

\* C6: a commit runs the full-save path exactly when its incremental save
\* failed; after a successful fallback the open handle is the one reopened
\* from the replaced file, it shows what the file holds, and _save_pdf_safe
\* reports success.
C6_FallbackIffIncrementalFails ==
    last.commits >= 1 =>
        /\ (last.full # "no") <=> (last.incr = "failed")
        /\ (last.incr = "ok" /\ last.saved # "none") => last.saved = "true"
        /\ last.full = "ok" =>
              /\ pdf_doc.origin \in {"save_pdf_safe", "delete_annot_under_mouse"}
              /\ pdf_doc.pages = disk[pdf_doc.file].pages
              /\ pdf_doc.toc = disk[pdf_doc.file].toc
              /\ last.saved # "none" =>
                    /\ last.saved = "true"
                    /\ pdf_doc.origin = "save_pdf_safe"
                    /\ pdf_doc.file = current_pdf_path

\* _save_pdf_safe has fallen back to the full save and succeeded.
C6_Witness ==
    /\ last.incr = "failed"
    /\ last.full = "ok"
    /\ last.saved = "true"

\* C7: when the incremental save and the full save of a commit both fail,
\* the handler shows the user an error.
C7_DoubleFailureReported ==
    (last.incr = "failed" /\ last.full = "failed") =>
        \E i \in DOMAIN last.alerts : last.alerts[i].kind = "error"

\* C8: a handler that has added an ink annotation or erased an annotation
\* (eraser or Delete key) has made exactly one commit and re-rendered the
\* overlay, and has not rendered a page raster.
C8_OverlayOnlyAfterEdit ==
    (/\ last.op \in {"end_draw", "erase_annot", "delete_annot_under_mouse"}
     /\ last.edit # "none"
     /\ ~last.raised) =>
        /\ last.commits = 1
        /\ last.overlay
        /\ ~last.raster

(***************************************************************************)
(* Search: one document of up to three pages, one of which may fail to      *)
(* load; the text "x" occurs on its pages as the page records say.          *)
(***************************************************************************)
SearchDocs ==
    {<<Page(TRUE, 1, <<>>), Page(FALSE, 1, <<>>), Page(TRUE, 2, <<>>)>>,
     <<Page(TRUE, 1, <<>>), Page(TRUE, 0, <<>>), Page(TRUE, 1, <<>>)>>,
     <<Page(TRUE, 0, <<>>), Page(TRUE, 1, <<>>)>>}

SearchDisk(pages) == [a |-> PdfFile(60, 80, pages)]

SearchTexts == {"", "x", "y"}

InitSearch ==
    /\ InitApp(<<60, 80>>)
    /\ disk \in {SearchDisk(pages) : pages \in SearchDocs}
    /\ budget = MaxSearchOps

DoFindTextChange ==
    \E text \in SearchTexts :
        Gesture(OnFindTextChange(Begin(Self, "on_find_text_change"), text))
DoDoSearch == Gesture(DoSearch(Begin(Self, "do_search")))
DoFindNext == Gesture(FindNext(Begin(Self, "find_next")))
DoFindPrevious == Gesture(FindPrevious(Begin(Self, "find_previous")))

NextSearch ==
    \/ OpenSettled /\ DoOpenPdf
    \/ OpenSettled /\ DoPrevPage
    \/ OpenSettled /\ DoGoToPage
    \/ OpenSettled /\ DoFindTextChange
    \/ OpenSettled /\ DoDoSearch
    \/ OpenSettled /\ DoFindNext
    \/ OpenSettled /\ DoFindPrevious
    \/ OpenSettled /\ DoToggleViewMode
    \/ DoDeferredShowPage
    \/ DoUpdatePageFromScroll
    \/ DoThumbWorker
    \/ DoContinuousWorker
    \/ DoApplyThumbnails
    \/ DoApplyContinuousRender

SpecSearch == InitSearch /\ [][NextSearch]_vars

(***************************************************************************)
(* Properties of search (under SpecSearch).                                 *)
(***************************************************************************)
\* The step runs the search loop: _do_search with a text and a document,
\* called directly or by find_next / find_previous on an empty result list.
SearchRuns ==
    /\ search_text # ""
    /\ HasDoc(Self)
    /\ \/ last'.op = "do_search"
       \/ last'.op \in {"find_next", "find_previous"} /\ search_results = <<>>

\* C9: the results of a search are in non-decreasing page order, and each
\* page contributes all its matches if it loads and none if it does not,
\* whatever the pages before it did.
C9_SearchOrderedAndComplete ==
    [][SearchRuns =>
          LET r == search_results' IN
          /\ \A i \in 1..(Len(r) - 1) : r[i].page <= r[i + 1].page
          /\ \A p \in 0..(NumPages(Self) - 1) :
                Cardinality({i \in DOMAIN r : r[i].page = p}) =
                    IF Loadable(pdf_doc, p)
                    THEN Hits(pdf_doc.pages[p + 1], search_text)
                    ELSE 0]_vars

\* A search over a document whose second page fails to load has found the
\* matches of the first and of the third page.
C9_Witness ==
    /\ HasDoc(Self)
    /\ NumPages(Self) = 3
    /\ ~Loadable(pdf_doc, 1)
    /\ Len(search_results) = 3
    /\ search_results[1].page = 0
    /\ search_results[3].page = 2

\* n applications of the cursor step of find_next.
RECURSIVE NextTimes(_, _, _)
NextTimes(i, n, k) == IF k = 0 THEN i ELSE NextTimes(NextIndex(i, n), n, k - 1)

\* C10: with n >= 1 results, find_next moves the cursor one result on and
\* from the last to the first, find_previous one result back and from the
\* first to the last; the step of the other handler takes the cursor back
\* to where it was, and n steps of find_next return it to the same result.
C10_CircularCursor ==
    [][(/\ search_results # <<>>
        /\ current_search_index >= 0
        /\ last'.op \in {"find_next", "find_previous"}) =>
          LET n == Len(search_results)
              i == current_search_index
              j == current_search_index'
          IN /\ search_results' = search_results
             /\ last'.op = "find_next" =>
                   /\ j = (IF i = n - 1 THEN 0 ELSE i + 1)
                   /\ PrevIndex(j, n) = i
                   /\ NextTimes(i, n, n) = i
             /\ last'.op = "find_previous" =>
                   /\ j = (IF i = 0 THEN n - 1 ELSE i - 1)
                   /\ NextIndex(j, n) = i]_vars

\* find_next has just taken the cursor from the last of three results to
\* the first.
C10_Witness ==
    /\ last.op = "find_next"
    /\ Len(search_results) = 3
    /\ current_search_index = 0

\* The application after k more calls of find_next.
RECURSIVE FindNextTimes(_, _)
FindNextTimes(s, k) == IF k = 0 THEN s ELSE FindNextTimes(FindNext(s), k - 1)

\* C11: when a search has just produced 3 results, 4 calls of find_next
\* leave the cursor on the first result (index 0).
C11_FourNextsReturnToFirst ==
    [][(SearchRuns /\ Len(search_results') = 3) =>
          FindNextTimes(Self', 4).current_search_index = 0]_vars

\* The step is a successful open_pdf.
Opened == last'.op = "open_pdf" /\ last'.alerts = <<>>

\* C12: a step that opens a document and a step that starts a new query
\* (a change of the find text) leave no search results and no current
\* result; and the results held at any time are those of a search for the
\* current text in the document that is open, so that none computed for
\* another document or text can be navigated to or highlighted.
C12_SearchInvalidated ==
    [][/\ (Opened \/ last'.op = "on_find_text_change") =>
             /\ search_results' = <<>>
             /\ current_search_index' = -1
             /\ canvas_hl' = <<>>
       /\ search_results' # <<>> =>
             /\ HasDoc(Self')
             /\ search_results' = SearchFrom(pdf_doc', search_text', 0)]_vars

(***************************************************************************)
(* Navigation: page turns, scrolling and view changes over two documents.   *)
(***************************************************************************)
NavDisk == [f \in {"a", "b"} |-> RenderDisk[f]]

InitNav == InitApp(<<60, 80>>) /\ disk = NavDisk /\ budget = MaxNavOps

NextNav ==
    \/ OpenSettled /\ DoOpenPdf
    \/ OpenSettled /\ DoNextPage
    \/ OpenSettled /\ DoToggleFit
    \/ OpenSettled /\ DoToggleViewMode
    \/ OpenSettled /\ DoScroll
    \/ DoDeferredShowPage
    \/ DoUpdatePageFromScroll
    \/ DoThumbWorker
    \/ DoContinuousWorker
    \/ DoApplyThumbnails
    \/ DoApplyContinuousRender

SpecNav == InitNav /\ [][NextNav]_vars

\* C3: whenever a document is open, the current page index is at least 0
\* and less than the page count.
C3_PageInRange ==
    HasDoc(Self) => (0 <= current_page /\ current_page < NumPages(Self))

(***************************************************************************)
(* The single-instance protocol: this process holds the fixed port; second  *)
(* processes are started with or without an argument while it runs.         *)
(***************************************************************************)
\* os.path.exists(path)
Exists(s, path) == path \in DOMAIN s.disk

\* The head of PDFReaderApp.__init__ in the second process, which show_main
\* runs after destroying the splash window: the Tk root is created, then
\* is_already_running(initial_pdf) binds the port or, when that fails,
\* connects, sends and lets __init__ exit.  port_free: the bind succeeds;
\* net: whether the connection is made.  A process that has bound the port
\* goes on as an application of its own: it starts its listener and
\* __main__ opens its file.
SecondInit(s, sec, port_free, net) ==
    LET s1 == [sec EXCEPT !.windows = @ + 1] IN
    IF port_free
    THEN [s1 EXCEPT !.phase = "primary", !.bound = TRUE, !.listener = TRUE,
                    !.opened = IF sec.initial_pdf # "" /\ Exists(s, sec.initial_pdf)
                               THEN sec.initial_pdf ELSE "none"]
    ELSE IF net = "ok"
    THEN [s1 EXCEPT !.phase = "exited", !.connected = TRUE,
                    !.sent = <<Payload(sec.initial_pdf)>>]
    ELSE [s1 EXCEPT !.phase = "exited"]

\* What the listener posts for the data of one accepted connection.
ListenerPosts(s, data) ==
    IF data = RaiseSentinel THEN <<[fn |-> "raise_window", path |-> ""]>>
    ELSE IF Exists(s, data) THEN <<[fn |-> "open_and_raise", path |-> data]>>
    ELSE <<>>

\* _open_and_raise / _raise_window, run from the event loop.
RunPosted(s, cb) ==
    IF cb.fn = "open_and_raise" THEN OpenPdf(s, cb.path) ELSE s

InstanceDisk == [f \in {"a", "b"} |-> RenderDisk[f]]
Argvs == {"", "a", "gone", "notes"}

InitInstance ==
    InitApp(<<60, 80>>) /\ disk = InstanceDisk /\ budget = MaxInstanceOps

\* A step of a thread or process other than the interactive thread.
Elsewhere == Commit(Self) /\ nOps' = nOps /\ budget' = budget

DoStartSecond ==
    /\ second.phase \in {"none", "exited"}
    /\ nOps < budget
    /\ \E argv \in Argvs : second' = StartSecond(argv)
    /\ Commit(Self) /\ nOps' = nOps + 1 /\ budget' = budget
    /\ UNCHANGED <<listener, backlog, posted>>
DoSecondInit ==
    /\ second.phase = "splash"
    /\ \E net \in {"ok", "refused"} :
          /\ second' = SecondInit(Self, second, instance_socket = "closed", net)
          /\ backlog' = backlog \o second'.sent
    /\ Elsewhere
    /\ UNCHANGED <<listener, posted>>
DoListenerAccept ==
    /\ listener = "running"
    /\ instance_socket = "listening"
    /\ backlog # <<>>
    /\ backlog' = Tail(backlog)
    /\ posted' = posted \o ListenerPosts(Self, Head(backlog))
    /\ Elsewhere
    /\ UNCHANGED <<listener, second>>
\* accept() on the closed socket raises and the loop breaks.
DoListenerEnds ==
    /\ listener = "running"
    /\ instance_socket = "closed"
    /\ listener' = "ended"
    /\ Elsewhere
    /\ UNCHANGED <<backlog, posted, second>>
DoRunPosted ==
    /\ posted # <<>>
    /\ LET s == RunPosted(Begin(Self, Head(posted).fn), Head(posted)) IN
          InBounds(s) /\ Commit(s)
    /\ posted' = Tail(posted)
    /\ nOps' = nOps /\ budget' = budget
    /\ UNCHANGED <<listener, backlog, second>>

NextInstance ==
    \/ OpenSettled /\ DoOpenPdf
    \/ OpenSettled /\ DoStartSecond
    \/ DoSecondInit
    \/ DoListenerAccept
    \/ DoListenerEnds
    \/ DoRunPosted
    \/ DoDeferredShowPage
    \/ DoThumbWorker
    \/ DoApplyThumbnails

SpecInstance == InitInstance /\ [][NextInstance]_vars

\* The second process has finished starting: it has exited or it runs on.
SecondSettled == second.phase \in {"exited", "primary"}

\* C13: a second process started with the path of an existing file while
\* this process runs ends up exited, having created no window and having
\* sent the path over a connection that this process can still accept or
\* has accepted.  (What the claim's "eventually opens" needs at the moment
\* the second process is done.)
C13_SecondHandsOverAndExits ==
    (SecondSettled /\ second.initial_pdf \in DOMAIN disk) =>
        /\ second.phase = "exited"
        /\ second.windows = 0
        /\ second.sent = <<second.initial_pdf>>
        /\ ~(instance_socket = "closed" /\ backlog # <<>>)

\* C14: a process that failed to bind the port has exited having sent at
\* most one payload, and exactly one if its connection was made: its file
\* argument, or the raise sentinel if it has none; it has started no
\* listener and opened no document, whether the connection was made or not.
C14_SecondaryOnlyForwards ==
    (SecondSettled /\ ~second.bound) =>
        /\ second.phase = "exited"
        /\ Len(second.sent) <= 1
        /\ second.connected =>
              second.sent = <<IF second.initial_pdf # ""
                              THEN second.initial_pdf ELSE "__RAISE__">>
        /\ ~second.connected => second.sent = <<>>
        /\ ~second.listener
        /\ second.opened = "none"

\* A second process with a file argument has failed to bind, sent the path
\* and exited.
C14_Witness ==
    /\ second.phase = "exited"
    /\ ~second.bound
    /\ second.connected
    /\ second.sent = <<"a">>

(***************************************************************************)
(* The coordinate mapper: two documents of different shape on one canvas,   *)
(* viewed in every rotation, fit mode and view mode; the two functions are  *)
(* called on sample points at any moment.                                   *)
(***************************************************************************)
CanvasPoints == {<<40, 30>>, <<60, 80>>, <<75, 100>>}
DocPoints == {<<0, 0>>, <<10, 20>>, <<60, 80>>}

InitMapper ==
    InitApp(<<120, 160>>) /\ disk = NavDisk /\ budget = MaxMapperOps

DoCanvasToPdf ==
    \E p \in CanvasPoints :
        Async(MapperCall(Begin(Self, "canvas_to_pdf"), "canvas_to_pdf", p))
DoPdfToCanvas ==
    \E p \in DocPoints :
        Async(MapperCall(Begin(Self, "pdf_to_canvas"), "pdf_to_canvas", p))

NextMapper ==
    \/ OpenSettled /\ DoOpenPdf
    \/ OpenSettled /\ DoRotatePage
    \/ OpenSettled /\ DoFitModeChange
    \/ OpenSettled /\ DoToggleViewMode
    \/ DoCanvasToPdf
    \/ DoPdfToCanvas
    \/ DoDeferredShowPage
    \/ DoUpdatePageFromScroll
    \/ DoThumbWorker
    \/ DoContinuousWorker
    \/ DoApplyThumbnails
    \/ DoApplyContinuousRender

SpecMapper == InitMapper /\ [][NextMapper]_vars

\* The canvas point lies inside the first displayed page image.
InImage(p) ==
    /\ canvas_pdf # <<>>
    /\ TopLeft2(Self)[1] <= 2 * p[1]
    /\ 2 * p[1] <= TopLeft2(Self)[1] + 2 * canvas_pdf[1].w
    /\ TopLeft2(Self)[2] <= 2 * p[2]
    /\ 2 * p[2] <= TopLeft2(Self)[2] + 2 * canvas_pdf[1].h

\* C15: while a page image is displayed, canvas_to_pdf and pdf_to_canvas
\* do not fail; pdf_to_canvas takes the result of canvas_to_pdf for a
\* canvas point inside the image back to that point, and canvas_to_pdf
\* takes the result of pdf_to_canvas for a document point back to it.
C15_MapperRoundTrip ==
    /\ (last.op \in {"canvas_to_pdf", "pdf_to_canvas"} /\ canvas_pdf # <<>>) =>
          ~last.raised
    /\ (last.op = "canvas_to_pdf" /\ ~last.raised /\ InImage(last.at)) =>
          PdfToCanvasExact(Self, last.value[1], last.value[2]) = FracPoint(last.at)
    /\ (last.op = "pdf_to_canvas" /\ ~last.raised) =>
          CanvasToPdfExact(Self, last.value[1], last.value[2]) = FracPoint(last.at)

\* canvas_to_pdf has been called on a point inside an image that is
\* displayed off the canvas origin at a scale other than 1, and has moved it.
C15_Witness ==
    /\ last.op = "canvas_to_pdf"
    /\ ~last.raised
    /\ InImage(last.at)
    /\ pdf_scale # 1000
    /\ TopLeft2(Self)[1] # 0
    /\ last.value # FracPoint(last.at)

\* C16: a call of canvas_to_pdf or pdf_to_canvas made before any page has
\* been rendered does not fail and returns its input.
C16_IdentityBeforeRender ==
    (/\ last.op \in {"canvas_to_pdf", "pdf_to_canvas"}
     /\ pdf_scale = 0
     /\ images = <<>>) =>
        /\ ~last.raised
        /\ last.value = FracPoint(last.at)

\* C17: the scale the two functions use is that of the render on display:
\* whenever page images are on the canvas, self._pdf_scale is the zoom the
\* first of them was rendered with.
C17_MapperFollowsRender ==
    canvas_pdf # <<>> => pdf_scale = canvas_pdf[1].img.zoom

\* Where the single-page render on display shows the document point d of
\* its page: Matrix(zoom, zoom).prerotate(rotation) turns the page
\* clockwise, the fit_page branch resizes the raster, and the image is
\* centred on the canvas item's position.
DrawnAt(s, d) ==
    LET it  == s.canvas_pdf[1]
        W   == s.pdf_doc.w
        H   == s.pdf_doc.h
        pre == CASE it.img.rot = 90  -> <<H - d[2], d[1]>>
                 [] it.img.rot = 180 -> <<W - d[1], H - d[2]>>
                 [] it.img.rot = 270 -> <<d[2], W - d[1]>>
                 [] OTHER            -> d
    IN <<Frac(2 * pre[1] * it.img.zoom * it.w + TopLeft2(s)[1] * 1000 * it.img.w,
              2000 * it.img.w),
         Frac(2 * pre[2] * it.img.zoom * it.h + TopLeft2(s)[2] * 1000 * it.img.h,
              2000 * it.img.h)>>

\* The fractions a and b differ by at most t.
Within(a, b, t) == Abs(a[1] * b[2] - b[1] * a[2]) <= t * a[2] * b[2]
PointsWithin(p, q, t) == Within(p[1], q[1], t) /\ Within(p[2], q[2], t)

\* The canvas shows one single-page render of the current page in the
\* current rotation.
SinglePageShown ==
    /\ HasDoc(Self)
    /\ view_mode = "single_page"
    /\ Len(canvas_pdf) = 1
    /\ pdf_scale # 0
    /\ canvas_pdf[1].img = PageImage(pdf_doc, current_page, pdf_scale, rotation)

\* C18: in single-page view, in every rotation and fit mode, pdf_to_canvas
\* maps a document point of the page to the canvas position where the
\* render shows it, and canvas_to_pdf maps that position back to the
\* point (each within 2 units).
C18_MapperMatchesRender ==
    SinglePageShown =>
        \A d \in DocPoints :
            /\ PointsWithin(PdfToCanvasExact(Self, Frac(d[1], 1), Frac(d[2], 1)),
                            DrawnAt(Self, d), 2)
            /\ LET c == DrawnAt(Self, d) IN
                  PointsWithin(CanvasToPdfExact(Self, c[1], c[2]), FracPoint(d), 2)

(***************************************************************************)
(* Ink hit-testing: one page that carries one ink stroke (a point, a        *)
(* horizontal, a diagonal or a bent one); the eraser is used at positions   *)
(* on, beside and beyond the stroke.                                        *)
(***************************************************************************)
InkStrokes ==
    {<<<<20, 20>>, <<20, 20>>>>,
     <<<<10, 10>>, <<30, 10>>>>,
     <<<<10, 10>>, <<30, 30>>>>,
     <<<<10, 10>>, <<30, 10>>, <<30, 30>>>>}
InkPointers ==
    {<<40, 20>>, <<40, 40>>, <<80, 20>>, <<100, 20>>, <<40, 60>>, <<100, 100>>,
     <<41, 75>>}
Tolerances == {1, 8, EraseTolerance}

InitInk ==
    /\ InitApp(<<120, 160>>)
    /\ disk \in {AnnotDisk(<<InkAnnot(stroke)>>) : stroke \in InkStrokes}
    /\ budget = MaxAnnotOps

DoEraseInk ==
    \E pt \in InkPointers, io \in IOOutcomes :
        Gesture(EraseAnnot(Begin(Self, "erase_annot"), pt, io))

NextInk ==
    \/ OpenSettled /\ DoOpenPdf
    \/ OpenSettled /\ DoEraseInk
    \/ DoDeferredShowPage
    \/ DoThumbWorker
    \/ DoApplyThumbnails

SpecInk == InitInk /\ [][NextInk]_vars

\* Some point of the segment from a to b, among the SegmentSamples + 1
\* evenly spaced ones, lies within tolerance + slack / SegmentSamples of p.
SampleWithin(p, a, b, tolerance, slack) ==
    \E k \in 0..SegmentSamples :
        Sq(SegmentSamples * p[1] - ((SegmentSamples - k) * a[1] + k * b[1]))
        + Sq(SegmentSamples * p[2] - ((SegmentSamples - k) * a[2] + k * b[2]))
            <= Sq(SegmentSamples * tolerance + slack)
\* Half the length of the segment, rounded up: no point of the segment is
\* farther than this over SegmentSamples from the nearest sample.
HalfSpan(a, b) == (Abs(b[1] - a[1]) + Abs(b[2] - a[2]) + 1) \div 2

\* The step is _erase_annot on a loaded page, and the point it tests.
Erasing ==
    /\ last'.op = "erase_annot"
    /\ HasDoc(Self)
    /\ Loadable(pdf_doc, current_page)
    /\ pdf_scale # 0
ErasePoint == CanvasToPdf(Self, last'.at[1], last'.at[2] + scroll_y)

\* C19: for every ink annotation of the page, every segment of it, the
\* point of an eraser step and every tolerance: the midpoint of the
\* segment is found; the distance test is true when a sampled point of the
\* segment is within the tolerance and false when no point of the segment
\* can be (the nearest point of the segment counts, not of the line); a
\* segment of length zero is tested as a point.  The eraser removes an
\* annotation when its point is the midpoint of a segment, and none when
\* the point is outside every rectangle and farther than its tolerance from
\* every segment.
C19_InkHitTest ==
    [][Erasing =>
        LET p      == ErasePoint
            annots == Annots(pdf_doc, current_page)
            Segs(a) == IF a.type = "ink" THEN 1..(Len(a.points) - 1) ELSE {}
            Far(a) == \A j \in Segs(a) :
                         ~SampleWithin(p, a.points[j], a.points[j + 1],
                                       EraseTolerance,
                                       HalfSpan(a.points[j], a.points[j + 1]))
        IN /\ \A i \in DOMAIN annots : \A j \in Segs(annots[i]) :
                \A tolerance \in Tolerances :
                  LET a == annots[i].points[j]
                      b == annots[i].points[j + 1]
                      within == PointToSegmentWithin(p[1], p[2], a[1], a[2],
                                                     b[1], b[2], tolerance)
                  IN /\ (2 * p[1] = a[1] + b[1] /\ 2 * p[2] = a[2] + b[2]) =>
                           IsPointNearInk(annots[i], p[1], p[2], tolerance)
                     /\ SampleWithin(p, a, b, tolerance, 0) => within
                     /\ within => SampleWithin(p, a, b, tolerance, HalfSpan(a, b))
                     /\ a = b =>
                           (within <=> Sq(p[1] - a[1]) + Sq(p[2] - a[2])
                                          <= Sq(tolerance))
           /\ (\E i \in DOMAIN annots : \E j \in Segs(annots[i]) :
                  /\ 2 * p[1] = annots[i].points[j][1] + annots[i].points[j + 1][1]
                  /\ 2 * p[2] = annots[i].points[j][2] + annots[i].points[j + 1][2])
                => last'.edit = "removed"
           /\ (\A i \in DOMAIN annots :
                  ~RectContains(annots[i].rect, p[1], p[2]) /\ Far(annots[i]))
                => /\ last'.edit # "removed"
                   /\ Annots(pdf_doc', current_page') = annots]_vars

\* The eraser found nothing at a point that lies on the line through a
\* segment of the page's stroke, beyond the segment's end.
C19_Witness ==
    /\ last.op = "erase_annot"
    /\ last.alerts # <<>>
    /\ HasDoc(Self) /\ Loadable(pdf_doc, current_page) /\ pdf_scale # 0
    /\ \E i \in DOMAIN Annots(pdf_doc, current_page) :
          LET a == Annots(pdf_doc, current_page)[i]
              p == CanvasToPdf(Self, last.at[1], last.at[2] + scroll_y)
          IN /\ a.type = "ink"
             /\ \E j \in 1..(Len(a.points) - 1) :
                   /\ a.points[j] # a.points[j + 1]
                   /\ PointToLineWithin(p[1], p[2],
                                        a.points[j][1], a.points[j][2],
                                        a.points[j + 1][1], a.points[j + 1][2], 0)

(***************************************************************************)
(* The continuous-scroll cache: two documents with the same number of       *)
(* pages and pages of different height, opened in turn and viewed in both   *)
(* view modes.                                                              *)
(***************************************************************************)
CacheDisk ==
    [a |-> PdfFile(60, 80, <<Page(TRUE, 0, <<>>), Page(TRUE, 0, <<>>)>>),
     b |-> PdfFile(60, 200, <<Page(TRUE, 0, <<>>), Page(TRUE, 0, <<>>)>>)]

InitCache == InitApp(<<60, 80>>) /\ disk = CacheDisk /\ budget = MaxCacheOps

NextCache ==
    \/ OpenSettled /\ DoOpenPdf
    \/ OpenSettled /\ DoToggleViewMode
    \/ OpenSettled /\ DoRotatePage
    \/ OpenSettled /\ DoFitModeChange
    \/ DoDeferredShowPage
    \/ DoUpdatePageFromScroll
    \/ DoThumbWorker
    \/ DoContinuousWorker
    \/ DoApplyThumbnails
    \/ DoApplyContinuousRender

SpecCache == InitCache /\ [][NextCache]_vars

\* The step switches a loaded document from single-page to continuous view:
\* show_page runs _show_continuous_scroll up to its cache test, on the
\* fields the step started with.
EntersContinuous ==
    /\ last'.op = "view"
    /\ view_mode = "single_page"
    /\ view_mode' = "continuous_scroll"
    /\ HasDoc(Self)
    /\ CanvasReady(Self)
    /\ Loadable(pdf_doc, 0)

\* C20: when _show_continuous_scroll takes its cache-hit branch, the
\* continuous render it relies on (the one dispatched last) was made of the
\* document now open, no job is dispatched and the generation counter
\* keeps its value; otherwise a job is dispatched under a new generation.
C20_CacheHitSameDocument ==
    [][EntersContinuous =>
         IF CacheHit(Self)
         THEN /\ issued.images # <<>> => issued.images[1].file = pdf_doc.file
              /\ jobs' = jobs
              /\ continuous_render_id' = continuous_render_id
         ELSE /\ continuous_render_id' = continuous_render_id + 1
              /\ jobs' # jobs]_vars

(***************************************************************************)
(* Properties of the render pipeline (under Spec).                          *)
(***************************************************************************)
\* Everything the application shows or caches: all fields but the job
\* table, and the history and observation variables.
Displayed ==
    <<pdf_doc, current_pdf_path, current_page, zoom, rotation, fit_mode,
      view_mode, canvas_size, thumbnails, images, page_heights,
      continuous_zoom, thumb_render_id, continuous_render_id,
      continuous_render_state, is_rendering, pdf_scale, canvas_pdf,
      scrollregion, scroll_y, timers, search_text, search_results,
      current_search_index, draw_points, draw_line, canvas_hl, disk,
      instance_socket>>

Delivered(job) == job \in jobs /\ job.phase = "posted" /\ job \notin jobs'

LiveId(job) ==
    IF job.ctx = "thumb" THEN thumb_render_id ELSE continuous_render_id

\* C1: in the thumbnail and in the continuous-scroll context, the delivery
\* of a result whose generation id is not the context's live id changes no
\* displayed or cached state; a delivery that installs anything carries the
\* live id.
C1_StaleResultDropped ==
    [][\A job \in jobs :
          (Delivered(job) /\ job.render_id # LiveId(job))
              => UNCHANGED Displayed]_vars

\* A thumbnail result of an older generation has been delivered while
\* thumbnails of a newer one were wanted.
C1_Witness ==
    /\ last.op = "apply_thumbnails"
    /\ last.dropped
    /\ thumb_render_id >= 2

ContinuousInFlight == \E job \in jobs : job.ctx = "continuous"

\* C2: once no continuous job is in flight, the job issued last has not
\* been dropped, and what it produced is what is installed: the page
\* heights and the zoom, and the images until a single-page render
\* replaces them.
C2_LastIssuedWins ==
    ~ContinuousInFlight =>
        /\ issued.phase # "dropped"
        /\ issued.phase \in {"installed", "replaced"} =>
              /\ page_heights = issued.page_heights
              /\ continuous_zoom = issued.zoom
        /\ issued.phase = "installed" => images = issued.images

\* Two jobs completed out of order: the older result arrived after the
\* newer one was installed, and the pipeline has settled.
C2_Witness ==
    /\ ~ContinuousInFlight
    /\ issued.phase = "installed"
    /\ issued.render_id >= 2
    /\ last.op = "apply_continuous_render"
    /\ last.dropped

\* A user gesture has changed the page, the zoom, the rotation, the fit
\* mode or the view mode.
ViewMutation ==
    /\ nOps' = nOps + 1
    /\ <<current_page, zoom, rotation, fit_mode, view_mode>>'
          # <<current_page, zoom, rotation, fit_mode, view_mode>>

\* C21: the generation counters never decrease; a document open increases
\* the thumbnail counter and a thumbnail job carries the new value; a
\* gesture that changes the page, zoom, rotation, fit mode or view mode and
\* leaves the document in continuous-scroll view (the page view that has a
\* counter) increases the continuous counter, and a continuous job carries
\* the new value.
C21_MutationBumpsGeneration ==
    [][/\ thumb_render_id' >= thumb_render_id
       /\ continuous_render_id' >= continuous_render_id
       /\ (last'.op = "open_pdf" /\ last'.alerts = <<>>) =>
             /\ thumb_render_id' > thumb_render_id
             /\ \E job \in jobs' :
                   job.ctx = "thumb" /\ job.render_id = thumb_render_id'
       /\ (/\ ViewMutation
           /\ last'.op = "view"
           /\ view_mode' = "continuous_scroll"
           /\ HasDoc(Self') /\ CanvasReady(Self') /\ Loadable(pdf_doc', 0)) =>
             /\ continuous_render_id' > continuous_render_id
             /\ \E job \in jobs' :
                   job.ctx = "continuous"
                   /\ job.render_id = continuous_render_id']_vars

\* C22: a handler that has rasterised a page (page.get_pixmap) is one of
\* the worker threads, never a handler of the interactive thread.
C22_RasterOnlyInWorkers == last.raster => last.op = "worker"

(***************************************************************************)
(* The session record at startup: the application starts with a session    *)
(* file that is absent, unreadable, written by an earlier run (possibly     *)
(* for a file that is gone since) or short of keys; the user then opens,    *)
(* zooms and rotates.                                                       *)
(***************************************************************************)
SessionKeys == {"file", "page", "zoom", "rotation", "sidebar_visible"}

\* data.get(key, default)
Get(data, key, default) == IF key \in DOMAIN data THEN data[key] ELSE default

\* _load_last_session, run once 200 ms after construction.  A parse error
\* is swallowed by the outer except; open_pdf reports its own failures.
LoadLastSession(s) ==
    LET s0 == [s EXCEPT !.timers = @ \ {"load_last_session"}] IN
    IF s0.session.kind # "json" THEN s0
    ELSE LET data == s0.session.data
             s1 == [s0 EXCEPT
                      !.zoom = Get(data, "zoom", 1000),
                      !.rotation = Get(data, "rotation", 0),
                      !.fit_mode = Get(data, "fit_mode", "fit_page"),
                      !.view_mode = Get(data, "view_mode", "single_page"),
                      !.sidebar_visible = Get(data, "sidebar_visible", TRUE)]
         IN IF "file" \in DOMAIN data /\ Exists(s1, data.file)
            THEN [OpenPdf(s1, data.file) EXCEPT
                     !.restore_page = Get(data, "page", 0)]
            ELSE s1

\* The self.after(500, lambda: self.go_to_page(page_num)) of the load.
RestoredGoToPage(s) == GoToPage([s EXCEPT !.restore_page = -1], s.restore_page)

SessionDisk ==
    [a |-> PdfFile(60, 80, <<Page(TRUE, 0, <<>>), Page(TRUE, 0, <<>>)>>)]

\* Records an earlier run can have written, and records short of keys.
SessionFiles ==
    {NoSession, BadSession,
     SessionFile([file |-> "a", page |-> 1, zoom |-> 1250, rotation |-> 90,
                  sidebar_visible |-> TRUE]),
     SessionFile([file |-> "gone", page |-> 0, zoom |-> 10000,
                  rotation |-> 270, sidebar_visible |-> FALSE]),
     SessionFile([zoom |-> 2000, rotation |-> 90]),
     SessionFile([file |-> "a"])}

InitSession ==
    /\ InitFields(<<60, 80>>)
    /\ session \in SessionFiles
    /\ timers = {"load_last_session"}
    /\ disk = SessionDisk
    /\ budget = MaxSessionOps

DoLoadLastSession ==
    /\ "load_last_session" \in timers
    /\ Async(LoadLastSession(Begin(Self, "load_last_session")))
DoRestoredGoToPage ==
    /\ restore_page >= 0
    /\ Async(RestoredGoToPage(Begin(Self, "view")))

\* The session load and the document open have run to their end.
SessionSettled == "load_last_session" \notin timers /\ OpenSettled

NextSession ==
    \/ DoLoadLastSession
    \/ DoRestoredGoToPage
    \/ SessionSettled /\ DoOpenPdf
    \/ SessionSettled /\ DoChangeZoom
    \/ SessionSettled /\ DoRotatePage
    \/ DoDeferredShowPage
    \/ DoThumbWorker
    \/ DoApplyThumbnails

SpecSession == InitSession /\ [][NextSession]_vars

Malformed(file) ==
    file.kind # "json" \/ ~(SessionKeys \subseteq DOMAIN file.data)

\* C27: a session load that finds the file missing or malformed shows no
\* error, opens no document and leaves page, zoom, rotation, fit mode and
\* view mode at their defaults.
C27_MalformedSessionIgnored ==
    [][(last'.op = "load_last_session" /\ Malformed(session)) =>
          /\ last'.alerts = <<>>
          /\ ~last'.raised
          /\ ~HasDoc(Self')
          /\ current_page' = 0
          /\ zoom' = 1000
          /\ rotation' = 0
          /\ fit_mode' = "fit_page"
          /\ view_mode' = "single_page"]_vars

\* C24: a handler whose commit went through the full-save fallback has
\* left the current page, the zoom, the rotation, the fit mode and the
\* view mode as they were, and the handle is a fresh one on the same path.
C24_FallbackKeepsViewState ==
    [][last'.full = "ok" =>
          /\ <<current_page, zoom, rotation, fit_mode, view_mode>>'
                = <<current_page, zoom, rotation, fit_mode, view_mode>>
          /\ current_pdf_path' = current_pdf_path
          /\ pdf_doc'.file = pdf_doc.file
          /\ pdf_doc'.origin \in {"save_pdf_safe", "delete_annot_under_mouse"}]_vars

\* The fallback has run while the second page was shown.
C24_Witness ==
    /\ last.full = "ok"
    /\ current_page = 1
    /\ pdf_doc.origin = "save_pdf_safe"

(***************************************************************************)
(* Opening files that fail: one good document and one file for each way     *)
(* fitz.open fails, a document without pages, and a path with no file.      *)
(***************************************************************************)
OpenDisk ==
    [a       |-> PdfFile(60, 80, <<Page(TRUE, 0, <<>>), Page(TRUE, 0, <<>>)>>),
     empty   |-> BrokenFile("EmptyFileError"),
     bad     |-> BrokenFile("FileDataError"),
     locked  |-> BrokenFile("PermissionError"),
     xref    |-> BrokenFile("format error"),
     odd     |-> BrokenFile("ValueError"),
     nopages |-> PdfFile(60, 80, <<>>),
     torn    |-> PdfFile(60, 80, <<Page(TRUE, 0, <<>>), Page(FALSE, 0, <<>>),
                                   Page(TRUE, 0, <<>>)>>)]

InitOpen == InitApp(<<60, 80>>) /\ disk = OpenDisk /\ budget = MaxOpenOps

\* open_pdf with a path from the dialog, the command line or a second
\* process: the file may be gone by then.
DoOpenPath ==
    \E f \in DOMAIN disk \cup {"gone"} :
        Gesture(OpenPdf(Begin(Self, "open_pdf"), f))

NextOpen ==
    \/ OpenSettled /\ DoOpenPath
    \/ OpenSettled /\ DoNextPage
    \/ DoDeferredShowPage
    \/ DoThumbWorker
    \/ DoApplyThumbnails

SpecOpen == InitOpen /\ [][NextOpen]_vars

\* The category the user is to be told for each file that does not open.
ExpectedTitle ==
    [gone    |-> "File Not Found",
     empty   |-> "Invalid PDF",
     bad     |-> "PDF Error",
     locked  |-> "Permission Denied",
     xref    |-> "PDF Format Error",
     odd     |-> "Error",
     nopages |-> "Invalid PDF"]

\* C25: open_pdf never raises; on a file that opens it shows nothing and
\* holds the document; on any other it shows exactly one error dialog,
\* titled with the category of the failure, and holds no document.
C25_OpenFailureReportedOnce ==
    last.op = "open_pdf" =>
        LET f == last.value[1] IN
        /\ ~last.raised
        /\ IF f \in DOMAIN ExpectedTitle
           THEN /\ last.alerts = <<[kind |-> "error", title |-> ExpectedTitle[f]]>>
                /\ ~HasDoc(Self)
           ELSE /\ last.alerts = <<>>
                /\ HasDoc(Self)
                /\ pdf_doc.file = f

\* A file the process may not read was opened after a document had been
\* shown with its thumbnails.
C25_Witness ==
    /\ last.op = "open_pdf"
    /\ last.value = <<"locked">>
    /\ last.alerts # <<>>
    /\ thumbnails # <<>>

\* C26: after a gesture that has changed the page, the zoom, the rotation,
\* the fit mode or the view mode, and after a document has been opened, the
\* session file holds a record whose file, page, zoom, rotation, fit_mode,
\* view_mode and sidebar_visible are those of the application.
C26_SessionFollowsState ==
    [][(ViewMutation \/ (last'.op = "open_pdf" /\ HasDoc(Self'))) =>
          /\ session'.kind = "json"
          /\ SessionKeys \cup {"fit_mode", "view_mode"} \subseteq DOMAIN session'.data
          /\ session'.data.file = current_pdf_path'
          /\ session'.data.page = current_page'
          /\ session'.data.zoom = zoom'
          /\ session'.data.rotation = rotation'
          /\ session'.data.sidebar_visible = sidebar_visible'
          /\ session'.data.fit_mode = fit_mode'
          /\ session'.data.view_mode = view_mode']_vars

\* C28: once an open and its thumbnail job have settled, the thumbnail
\* store holds exactly one entry for each loadable page of the open document,
\* an unloadable page being skipped, and nothing of an earlier document; it
\* is empty when no document is open.
C28_ThumbnailsOfOpenDocument ==
    OpenSettled =>
        thumbnails = IF HasDoc(Self) THEN ThumbImages(pdf_doc, 0) ELSE <<>>

(***************************************************************************)
(* Diagnostics (Help > Run Diagnostics): a worker thread and the callback  *)
(* it posts.                                                                *)
(***************************************************************************)
DiagJob(pdf_path) ==
    [ctx |-> "diagnostics", pdf_path |-> pdf_path, phase |-> "running",
     callback |-> "none"]

\* run_diagnostics on the interactive thread: with no document open the
\* file dialog gives pdf_path ("": cancelled); then the worker is started.
RunDiagnostics(s, chosen) ==
    LET pdf_path == IF HasDoc(s) THEN "" ELSE chosen IN
    IF ~HasDoc(s) /\ pdf_path = ""
    THEN Alert(s, "warning", "Diagnostics")
    ELSE Alert([s EXCEPT !.jobs = @ \cup {DiagJob(pdf_path)}],
               "info", "Diagnostics")

\* The diagnostics worker: it calls open_pdf itself when no document is
\* open, reads the first page, the outline and the current page, and posts
\* either the error dialog or ui_tests.
DiagnosticsWorker(s, job) ==
    LET s1 == IF ~HasDoc(s) /\ job.pdf_path # ""
              THEN OpenPdf(s, job.pdf_path) ELSE s
        done == [job EXCEPT !.phase = "posted",
                            !.callback = IF HasDoc(s1) THEN "ui_tests"
                                         ELSE "error"]
    IN [s1 EXCEPT !.jobs = (@ \ {job}) \cup {done}]

\* The posted error dialog.
DiagnosticsFailed(s, job) ==
    Alert([s EXCEPT !.jobs = @ \ {job}], "error", "Diagnostics")

\* ui_tests on the interactive thread: the handlers are called one after
\* the other, each inside its own try, then the summary is shown.
UiTests(s, job) ==
    LET s0 == [s EXCEPT !.jobs = @ \ {job}]
        s1 == RenderThumbnails(s0)
        s2 == ShowSinglePage(s1)
        s3 == ShowContinuousScroll(s2)
        s4 == PrevPage(NextPage(s3))
        s5 == ChangeZoom(ChangeZoom(s4, 1250), 800)
        s6 == RotatePage(s5)
    IN Alert(s6, "success", "Diagnostics")

DiagDisk ==
    [a      |-> PdfFile(60, 80, <<Page(TRUE, 0, <<>>), Page(TRUE, 0, <<>>)>>),
     locked |-> BrokenFile("PermissionError")]

InitDiag == InitApp(<<60, 80>>) /\ disk = DiagDisk /\ budget = MaxDiagOps

DoRunDiagnostics ==
    \E chosen \in DOMAIN disk \cup {""} :
        Gesture(RunDiagnostics(Begin(Self, "run_diagnostics"), chosen))
DoDiagnosticsWorker ==
    \E job \in jobs :
        /\ job.ctx = "diagnostics" /\ job.phase = "running"
        /\ Async(DiagnosticsWorker(Begin(Self, "worker"), job))
DoDiagnosticsFailed ==
    \E job \in jobs :
        /\ job.ctx = "diagnostics" /\ job.phase = "posted"
        /\ job.callback = "error"
        /\ Async(DiagnosticsFailed(Begin(Self, "diagnostics_failed"), job))
DoUiTests ==
    \E job \in jobs :
        /\ job.ctx = "diagnostics" /\ job.phase = "posted"
        /\ job.callback = "ui_tests"
        /\ Async(UiTests(Begin(Self, "ui_tests"), job))

NextDiag ==
    \/ OpenSettled /\ DoRunDiagnostics
    \/ DoDiagnosticsWorker
    \/ DoDiagnosticsFailed
    \/ DoUiTests
    \/ OpenSettled /\ DoOpenPdf
    \/ OpenSettled /\ DoNextPage
    \/ DoDeferredShowPage
    \/ DoThumbWorker
    \/ DoApplyThumbnails
    \/ DoContinuousWorker
    \/ DoApplyContinuousRender
    \/ DoUpdatePageFromScroll

SpecDiag == InitDiag /\ [][NextDiag]_vars

Posted(js) == {job \in js : job.phase = "posted"}

\* C29: a step of a worker thread (thumbnail, continuous scroll,
\* diagnostics) leaves the view state, the document handle, the generation
\* counters and every cache as they were, and posts at most one callback.
C29_WorkersOnlyHandOver ==
    [][last'.op = "worker" =>
          /\ UNCHANGED <<pdf_doc, current_pdf_path, current_page, zoom,
                         rotation, fit_mode, view_mode>>
          /\ UNCHANGED <<thumb_render_id, continuous_render_id>>
          /\ UNCHANGED <<thumbnails, images, page_heights, continuous_zoom,
                         continuous_render_state>>
          /\ Cardinality(Posted(jobs') \ Posted(jobs)) <= 1]_vars

(***************************************************************************)
(* Threads at a finer grain: a worker thread is inside its page loop from  *)
(* WorkerEnters to WorkerLeaves, the interactive thread is inside a         *)
(* handler that changes the document from EnterMutation to LeaveMutation.  *)
(* self._render_lock is created in __init__ and acquired nowhere, so no     *)
(* step below waits for another.                                            *)
(***************************************************************************)
\* The worker has called self.pdf_doc.load_page / page.get_pixmap and has
\* not posted its result yet.
WorkerEnters(s, job) ==
    LET inside == [job EXCEPT !.phase = "rasterizing"] IN
    [s EXCEPT !.jobs = (@ \ {job}) \cup {inside},
              !.issued = IF @ = job THEN inside ELSE @]

WorkerLeaves(s, job) ==
    IF job.ctx = "thumb" THEN ThumbWorker(s, job) ELSE ContinuousWorker(s, job)

\* The pointer positions at which the Delete key removes an annotation.
DeletePoints(s) ==
    {pt \in Pointers :
        DeleteAnnotUnderMouse(s, pt, "ok").last.edit = "removed"}

\* The handler has reached its first call that changes the document:
\* page.add_ink_annot in _end_draw, page.delete_annot in
\* _delete_annot_under_mouse, doc.save in _save_pdf_safe (from save_pdf).
ReachesMutation(s, handler) ==
    CASE handler = "end_draw" ->
            /\ s.draw_line /\ EnoughPoints(s.draw_points)
            /\ HasDoc(s) /\ Loadable(s.pdf_doc, s.current_page)
            /\ s.pdf_scale # 0
      [] handler = "delete_annot_under_mouse" -> DeletePoints(s) # {}
      [] handler = "save_pdf" -> HasDoc(s)

MutatingHandlers == {"end_draw", "delete_annot_under_mouse", "save_pdf"}

RaceDisk == AnnotDisk(<<InkA, BoxA>>)

InitRace == InitApp(<<120, 160>>) /\ disk = RaceDisk /\ budget = MaxRaceOps

Idle == ui_at = "idle"

DoWorkerEnters ==
    \E job \in jobs :
        /\ job.ctx \in {"thumb", "continuous"} /\ job.phase = "running"
        /\ Async(WorkerEnters(Begin(Self, "worker"), job))
DoWorkerLeaves ==
    \E job \in jobs :
        /\ job.ctx \in {"thumb", "continuous"} /\ job.phase = "rasterizing"
        /\ Async(WorkerLeaves(Begin(Self, "worker"), job))
DoEnterMutation ==
    \E handler \in MutatingHandlers :
        /\ ReachesMutation(Self, handler)
        /\ Gesture([Begin(Self, handler) EXCEPT !.ui_at = handler])
DoLeaveEndDraw ==
    /\ ui_at = "end_draw"
    /\ \E io \in IOOutcomes :
          Async(EndDraw([Begin(Self, "end_draw") EXCEPT !.ui_at = "idle"], io))
DoLeaveDelete ==
    /\ ui_at = "delete_annot_under_mouse"
    /\ \E pt \in DeletePoints(Self), io \in IOOutcomes :
          Async(DeleteAnnotUnderMouse(
                    [Begin(Self, "delete_annot_under_mouse")
                        EXCEPT !.ui_at = "idle"], pt, io))
DoLeaveSave ==
    /\ ui_at = "save_pdf"
    /\ \E io \in IOOutcomes :
          Async(SavePdf([Begin(Self, "save_pdf") EXCEPT !.ui_at = "idle"], io))

NextRace ==
    \/ Idle /\ DoOpenPdf
    \/ Idle /\ DoToggleViewMode
    \/ Idle /\ DoStartDraw
    \/ Idle /\ DoDrawDraw
    \/ Idle /\ DoEnterMutation
    \/ DoLeaveEndDraw
    \/ DoLeaveDelete
    \/ DoLeaveSave
    \/ DoWorkerEnters
    \/ DoWorkerLeaves
    \/ Idle /\ DoDeferredShowPage
    \/ Idle /\ DoApplyThumbnails
    \/ Idle /\ DoApplyContinuousRender
    \/ Idle /\ DoUpdatePageFromScroll

SpecRace == InitRace /\ [][NextRace]_vars

\* C30: in no reachable state is a worker thread loading or rasterizing a
\* page while the interactive thread is inside an annotation add, an
\* annotation delete or a save (which may replace the document handle).
C30_RasterSerializedWithMutation ==
    ~(/\ ui_at \in MutatingHandlers
      /\ \E job \in jobs : job.phase = "rasterizing")

(***************************************************************************)
(* Resizing while renders are in flight.                                    *)
(***************************************************************************)
ResizeDisk ==
    [a   |-> PdfFile(60, 80, <<Page(TRUE, 0, <<>>), Page(TRUE, 0, <<>>)>>),
     bad |-> BrokenFile("FileDataError")]

InitResize == InitApp(<<60, 80>>) /\ disk = ResizeDisk /\ budget = MaxResizeOps

NextResize ==
    \/ DoOpenPdf
    \/ DoToggleViewMode
    \/ DoResize
    \/ DoDebouncedResize
    \/ DoDeferredShowPage
    \/ DoUpdatePageFromScroll
    \/ DoThumbWorker
    \/ DoApplyThumbnails
    \/ DoContinuousWorker
    \/ DoApplyContinuousRender

SpecResize == InitResize /\ [][NextResize]_vars

\* A <Configure> event has been handled in this step.
ResizeEvent == nOps' = nOps + 1 /\ canvas_size' # canvas_size

C32_PrimaryKeepsEndpoint ==
    /\ instance_socket = "listening"
    /\ listener = "running"
    /\ ~second.bound

\* The continuous-scroll result fits the view at the moment of delivery: the
\* view mode is continuous scroll and every page of the result was rendered
\* from the document that is open.
FitsView(job) ==
    /\ view_mode = "continuous_scroll"
    /\ HasDoc(Self)
    /\ \A i \in DOMAIN job.images : job.images[i].file = pdf_doc.file

\* C33: the delivery of a continuous-scroll result that does not fit the
\* view (the user is back in single-page mode, or another document or none
\* is open) installs nothing: displayed and cached state stay as they were.
C33_ContinuousResultFitsView ==
    [][\A job \in jobs :
          (job.ctx = "continuous" /\ Delivered(job) /\ ~FitsView(job))
              => UNCHANGED Displayed]_vars

\* What the continuous worker produces for the current state, laid out as
\* _apply_continuous_render lays it out.
ContinuousRendering ==
    ContinuousItems(ContinuousImages(pdf_doc, 0, FitZoomContinuous(Self),
                                     rotation),
                    canvas_size[1], 0)

\* Nothing that renders is pending: no job, no show_page or resize timer.
RenderSettled ==
    /\ ~ContinuousInFlight
    /\ "show_page" \notin timers
    /\ resize_timers = {}

\* C34: in continuous-scroll mode with a document open, the canvas ready
\* and no render pending, the canvas holds the continuous-scroll rendering
\* of all pages for the current state.
C34_ContinuousViewShown ==
    (/\ view_mode = "continuous_scroll" /\ HasDoc(Self) /\ CanvasReady(Self)
     /\ RenderSettled)
        => canvas_pdf = ContinuousRendering

\* C35: once every dispatched thumbnail and continuous-scroll job has run
\* and its callback, if it posted one, has been handled, _is_rendering is
\* False (so that _debounced_resize renders instead of rescheduling itself).
C35_RenderingFlagClears ==
    (\A job \in jobs : job.ctx \notin {"thumb", "continuous"})
        => ~is_rendering

\* C36: the search cursor is -1 exactly when there are no results, and
\* otherwise an index into the results.
C36_CursorConsistent ==
    /\ current_search_index = -1 <=> search_results = <<>>
    /\ search_results # <<>> =>
          /\ 0 <= current_search_index
          /\ current_search_index < Len(search_results)

\* find_previous has wrapped from the first result to the last of several.
C36_Witness ==
    /\ last.op = "find_previous"
    /\ Len(search_results) >= 2
    /\ current_search_index = Len(search_results) - 1

\* C37: a search that has just found one or more results leaves the cursor
\* on the first of them (index 0) and the view on that result's page.
C37_SearchSelectsFirst ==
    [][(SearchRuns /\ search_results' # <<>>) =>
          /\ current_search_index' = 0
          /\ current_page' = search_results'[1].page]_vars

\* The annotation a canvas line depicts under the current mapping.
Depicts(line) ==
    InkAnnot([i \in 1..Len(line) |-> CanvasToPdf(Self, line[i][1], line[i][2])])

\* What the canvas shows of annotations in single-page mode: those drawn
\* into the page image when it was rasterized, and the lines of finished
\* draw gestures.  (_render_annotations itself draws nothing: its drawing
\* loop follows the return of an except branch.)
VisibleAnnots ==
    {canvas_pdf[1].img.annots[i] : i \in DOMAIN canvas_pdf[1].img.annots}
        \cup {Depicts(line) : line \in canvas_lines}

\* C38: when an ink add or an erase has succeeded in single-page mode, the
\* annotations the canvas shows for the current page are exactly those the
\* page has in the document.
C38_CanvasShowsAnnotations ==
    (/\ last.op \in {"end_draw", "erase_annot"}
     /\ last.edit # "none" /\ ~last.raised /\ last.saved = "true"
     /\ view_mode = "single_page" /\ PageReady /\ canvas_pdf # <<>>) =>
        VisibleAnnots = {Annots(pdf_doc, current_page)[i] :
                            i \in DOMAIN Annots(pdf_doc, current_page)}

\* C39: the startup restore of a session record that holds an existing
\* file F, page p, zoom z and rotation r opens F with zoom z and rotation r
\* and leaves the page turn to p pending; the pending page turn then shows
\* page p and keeps zoom and rotation.
C39_RestoreReproducesSaved ==
    [][/\ (/\ last'.op = "load_last_session"
           /\ ~Malformed(session)
           /\ Exists(Self, session.data.file)) =>
              /\ HasDoc(Self') /\ pdf_doc'.file = session.data.file
              /\ zoom' = session.data.zoom
              /\ rotation' = session.data.rotation
              /\ restore_page' = session.data.page
       /\ (restore_page >= 0 /\ restore_page' = -1) =>
              /\ current_page' = restore_page
              /\ zoom' = zoom /\ rotation' = rotation]_vars

(***************************************************************************)
(* Operations with no document open.                                        *)
(***************************************************************************)
NoDocDisk ==
    [a   |-> PdfFile(60, 80, <<Page(TRUE, 1, <<>>), Page(TRUE, 1, <<>>)>>),
     bad |-> BrokenFile("FileDataError")]

InitNoDoc == InitApp(<<120, 160>>) /\ disk = NoDocDisk /\ budget = MaxNoDocOps

NextNoDoc ==
    \/ OpenSettled /\ DoOpenPdf
    \/ OpenSettled /\ DoNextPage
    \/ OpenSettled /\ DoPrevPage
    \/ OpenSettled /\ DoGoToPage
    \/ OpenSettled /\ DoChangeZoom
    \/ OpenSettled /\ DoRotatePage
    \/ OpenSettled /\ DoFindTextChange
    \/ OpenSettled /\ DoDoSearch
    \/ OpenSettled /\ DoFindNext
    \/ OpenSettled /\ DoFindPrevious
    \/ OpenSettled /\ DoStartDraw
    \/ DoDrawDraw
    \/ DoEndDraw
    \/ OpenSettled /\ DoEraseAnnot
    \/ OpenSettled /\ DoDeleteAnnotUnderMouse
    \/ OpenSettled /\ DoSavePdf
    \/ DoDeferredShowPage
    \/ DoThumbWorker
    \/ DoApplyThumbnails

SpecNoDoc == InitNoDoc /\ [][NextNoDoc]_vars

\* The operations that act on the open document.
NeedsDocument ==
    {"view", "do_search", "find_next", "find_previous", "end_draw",
     "erase_annot", "delete_annot_under_mouse", "save_pdf"}

ViewState == <<current_page, zoom, rotation, view_mode, fit_mode, scroll_y>>
SearchState == <<search_results, current_search_index>>
DrawState == <<draw_line, draw_points, canvas_lines>>

\* C40: a step of page navigation, zoom, rotate, search, next or previous
\* result, the end of an ink gesture, erase, Delete-key erase or save that is
\* taken while no document is open raises no error and leaves the view
\* state and the search state unchanged, and the drawing state as well
\* unless the step is the one that ends the gesture.
C40_NoDocumentNoOp ==
    [][(~HasDoc(Self) /\ last'.op \in NeedsDocument) =>
           /\ ~last'.raised
           /\ UNCHANGED ViewState
           /\ UNCHANGED SearchState
           /\ (last'.op # "end_draw" => UNCHANGED DrawState)]_vars

====
